--------------------------- MODULE PlanningProofs ---------------------------
(***************************************************************************)
(* Proofs about the planning pipeline: what its files say holds, whatever  *)
(* saves fail, whenever the daemon dies and however often Run is called    *)
(* again.                                                                  *)
(*                                                                         *)
(* The pipeline learns of the registry only the status of its jobs.  Every *)
(* call of the registry is a save that turns the status of a job (Turns);  *)
(* the invariant PInv relates the statuses in memory and in the file to    *)
(* the phases of the present Run and to its files.                         *)
(***************************************************************************)
EXTENDS PlanningPipeline, TLAPS

Saved(s) == disk.jobs[s].status

\* Memory keeps every outcome that is in the file.
Remembers == up => \A s \in Steps : Saved(s) \in R!Terminal => Status(s) = Saved(s)

\* In a snapshot a job is there only after the success of what its step depends on.
Ordered(snapshot) ==
    \A s \in Steps : snapshot.jobs[s].status # "absent" =>
        \A d \in Dependencies(s) : snapshot.jobs[d].status = "succeeded"

\* What a Run that has come so far with a step may rely on.
Reached(s) ==
    /\ phase[s] \in {"leased", "produced", "truncated", "written", "registered"} =>
          Status(s) \notin {"absent", "succeeded"}
    /\ phase[s] \in {"written", "registered"} => artifact[s] = "whole"
    /\ phase[s] \in {"completed", "noted"} => Saved(s) = "succeeded"
    /\ phase[s] = "completed" => history[s] = 0
    /\ phase[s] = "done" => Status(s) = "succeeded"

\* A succeeded job has its artifact, in memory and in the file, and a line of history is
\* of a job that the file calls succeeded.
Backed(s) == /\ Status(s) = "succeeded" \/ Saved(s) = "succeeded" => artifact[s] = "whole"
             /\ history[s] <= 1
             /\ history[s] = 1 => Saved(s) = "succeeded"

\* A step that is named has succeeded for the daemon that runs, or for the next one, or that
\* success died with a memory.
Succeeded(s) == s \in undone \/ (IF up THEN Status(s) ELSE Saved(s)) = "succeeded"

PInv == /\ PipelineTypeOK
        /\ running => up
        /\ ~running => kept = {}
        /\ Remembers
        /\ Ordered(mem) /\ Ordered(disk)
        /\ running => \A s \in Steps : Reached(s)
        /\ \A s \in Steps : Backed(s)
        /\ \A s \in meta.artifacts \cup kept : Succeeded(s)

-----------------------------------------------------------------------------
(* The graph and the registry.                                             *)

LEMMA StepNames ==
    ASSUME PlanningConstants
    PROVE /\ \A s \in Steps : Dependencies(s) \subseteq Steps
          /\ {"rough_idea", "comparative_matrix", "synthesis", "fresh_eyes_critique"} \subseteq Steps
          /\ Candidates \subseteq Steps
<1>1. /\ {"rough_idea", "comparative_matrix", "synthesis", "fresh_eyes_critique"} \subseteq Steps
      /\ Candidates \subseteq Steps
  BY DEF Steps
<1>2. Last \in Steps
  <2>1. CASE Refinements = <<>>
    BY <1>1, <2>1 DEF Last
  <2>2. CASE Refinements # <<>>
    <3>1. Len(Refinements) \in 1 .. Len(Refinements)
      BY <2>2 DEF PlanningConstants
    <3> QED BY <2>2, <3>1 DEF Last, Steps
  <2> QED BY <2>1, <2>2
<1>3. ASSUME NEW s \in Steps, s \notin Candidates,
             s \notin {"rough_idea", "comparative_matrix", "synthesis", "fresh_eyes_critique",
                       "lock_readiness"}
      PROVE LET i == CHOOSE n \in 1 .. Len(Refinements) : Refinements[n] = s
            IN {IF i = 1 THEN "fresh_eyes_critique" ELSE Refinements[i - 1]} \subseteq Steps
  <2> DEFINE i == CHOOSE n \in 1 .. Len(Refinements) : Refinements[n] = s
  <2>1. \E n \in 1 .. Len(Refinements) : Refinements[n] = s
    BY <1>3 DEF Steps
  <2>2. i \in 1 .. Len(Refinements)
    BY <2>1
  <2> HIDE DEF i
  <2>3. i # 1 => i - 1 \in 1 .. Len(Refinements)
    BY <2>2 DEF PlanningConstants
  <2>4. i # 1 => Refinements[i - 1] \in Steps
    BY <2>3 DEF Steps
  <2>5. {IF i = 1 THEN "fresh_eyes_critique" ELSE Refinements[i - 1]} \subseteq Steps
    BY <1>1, <2>4
  <2> QED BY <2>5 DEF i
<1>4. ASSUME NEW s \in Steps PROVE Dependencies(s) \subseteq Steps
  <2>1. CASE s \in Candidates \/ s \in {"rough_idea", "comparative_matrix", "synthesis",
                                         "fresh_eyes_critique", "lock_readiness"}
    BY <1>1, <1>2, <2>1 DEF Dependencies
  <2>2. CASE ~(s \in Candidates \/ s \in {"rough_idea", "comparative_matrix", "synthesis",
                                           "fresh_eyes_critique", "lock_readiness"})
    <3>1. Dependencies(s) = LET i == CHOOSE n \in 1 .. Len(Refinements) : Refinements[n] = s
                            IN {IF i = 1 THEN "fresh_eyes_critique" ELSE Refinements[i - 1]}
      BY <2>2 DEF Dependencies
    <3> QED BY <1>3, <2>2, <3>1
  <2> QED BY <2>1, <2>2
<1> QED BY <1>1, <1>4

\* A call of the registry on the job of step s: a save that turns its status.
Turns(s, status) ==
    /\ R!RegistryTypeOK'
    /\ up /\ up' /\ undone' = undone
    /\ \A t \in Steps : Status(t)' = IF t = s THEN status ELSE Status(t)
    /\ disk' = mem' \/ (disk' = disk /\ ~Answered)

\* The answers that callers get are of their types.
AnswersTyped == /\ told \in [Steps -> SUBSET R!Terminal] => told' \in [Steps -> SUBSET R!Terminal]
                /\ held \in [Steps -> [{Worker} -> Nat]] => held' \in [Steps -> [{Worker} -> Nat]]
                /\ promised' = promised

LEMMA SnapshotWith ==
    ASSUME NEW old \in R!Snapshot, NEW s \in Steps, NEW job \in R!Job
    PROVE  /\ [old EXCEPT !.jobs[s] = job] \in R!Snapshot
           /\ \A t \in Steps : [old EXCEPT !.jobs[s] = job].jobs[t]
                                  = IF t = s THEN job ELSE old.jobs[t]
  BY DEF R!Snapshot

LEMMA UpdateTurns ==
    ASSUME R!RegistryTypeOK, NEW s \in Steps, NEW job \in R!Job, R!Update(s, job, AnswersTyped)
    PROVE  Turns(s, job.status) /\ Status(s) # "absent"
<1>1. /\ up /\ up' = up /\ undone' = undone /\ now' = now /\ logs' = logs /\ reader' = reader
      /\ mem.jobs[s].status # "absent"
      /\ mem' = [mem EXCEPT !.jobs[s] = job]
      /\ \/ disk' = mem' /\ faults' = faults /\ AnswersTyped
         \/ disk' = disk /\ faults' = faults + 1 /\ told' = told /\ held' = held /\ promised' = promised
      /\ atEnd' = IF job.status \in R!Terminal /\ mem.jobs[s].status \notin R!Terminal
                  THEN [atEnd EXCEPT ![s] = logs[s]] ELSE atEnd
  BY DEF R!Update, R!Persist, R!PersistFails, R!answers
<1>2. mem \in R!Snapshot /\ disk \in R!Snapshot /\ faults \in Nat
  BY DEF R!RegistryTypeOK
<1>3. mem' \in R!Snapshot /\ \A t \in Steps : mem'.jobs[t] = IF t = s THEN job ELSE mem.jobs[t]
  <2>1. /\ [mem EXCEPT !.jobs[s] = job] \in R!Snapshot
        /\ \A t \in Steps : [mem EXCEPT !.jobs[s] = job].jobs[t]
                               = IF t = s THEN job ELSE mem.jobs[t]
    BY <1>2, SnapshotWith
  <2> QED BY <1>1, <2>1, Zenon
<1>4. disk' \in R!Snapshot
  BY <1>1, <1>2, <1>3
<1>5. told' \in [Steps -> SUBSET R!Terminal] /\ held' \in [Steps -> [{Worker} -> Nat]]
      /\ promised' \in [Steps -> SUBSET Steps]
  BY <1>1 DEF R!RegistryTypeOK, AnswersTyped
<1>6. atEnd' \in [Steps -> Nat]
  BY <1>1 DEF R!RegistryTypeOK
<1>7. R!RegistryTypeOK'
  <2>1. /\ up' \in BOOLEAN /\ up' /\ now' \in Nat /\ faults' \in Nat /\ undone' \subseteq Steps
        /\ logs' \in [Steps -> Nat] /\ reader' \in [{} -> R!Reader]
    BY <1>1 DEF R!RegistryTypeOK
  <2> QED BY <1>3, <1>4, <1>5, <1>6, <2>1 DEF R!RegistryTypeOK
<1>8. disk' = mem' \/ (disk' = disk /\ ~Answered)
  BY <1>1, <1>2 DEF Answered
<1> QED BY <1>1, <1>3, <1>7, <1>8 DEF Turns, Status

LEMMA CreateTurns ==
    ASSUME R!RegistryTypeOK, NEW s \in Steps, R!CreateNew(s, s, "request")
    PROVE  Turns(s, "queued") /\ Status(s) = "absent"
<1> DEFINE new == [jobs |-> [mem.jobs EXCEPT ![s] = R!NewJob],
                   keys |-> [mem.keys EXCEPT ![s] = [hash |-> "request", job |-> s]]]
<1>1. /\ up /\ up' = up /\ undone' = undone /\ now' = now /\ logs' = logs /\ reader' = reader
      /\ atEnd' = atEnd
      /\ mem.jobs[s].status = "absent"
      /\ mem' = new
      /\ \/ /\ disk' = mem' /\ faults' = faults
            /\ promised' = [promised EXCEPT ![s] = @ \cup {s}]
            /\ told' = told /\ held' = held
         \/ disk' = disk /\ faults' = faults + 1 /\ told' = told /\ held' = held /\ promised' = promised
  BY DEF R!CreateNew, R!Persist, R!PersistFails, R!answers
<1>2. mem \in R!Snapshot /\ disk \in R!Snapshot /\ faults \in Nat
  BY DEF R!RegistryTypeOK
<1>3. R!NewJob \in R!Job /\ R!NewJob.status = "queued"
  BY DEF R!NewJob, R!Job, R!Statuses
<1>4. [hash |-> "request", job |-> s] \in R!IdempotencyRecord
  BY DEF R!IdempotencyRecord
<1>5. new.jobs \in [Steps -> R!Job]
      /\ \A t \in Steps : new.jobs[t] = IF t = s THEN R!NewJob ELSE mem.jobs[t]
  BY <1>2, <1>3 DEF R!Snapshot
<1>6. new.keys \in [Steps -> R!IdempotencyRecord \cup {Nothing}]
  BY <1>2, <1>4 DEF R!Snapshot
<1>7. new \in R!Snapshot
  BY <1>5, <1>6 DEF R!Snapshot
<1> HIDE DEF new
<1>8. promised' \in [Steps -> SUBSET Steps]
  <2>1. promised \in [Steps -> SUBSET Steps]
    BY DEF R!RegistryTypeOK
  <2>2. promised' = promised \/ promised' = [promised EXCEPT ![s] = @ \cup {s}]
    BY <1>1
  <2> QED BY <2>1, <2>2
<1>9. R!RegistryTypeOK'
  <2>1. /\ up' \in BOOLEAN /\ up' /\ now' \in Nat /\ faults' \in Nat /\ undone' \subseteq Steps
        /\ logs' \in [Steps -> Nat] /\ reader' \in [{} -> R!Reader] /\ atEnd' \in [Steps -> Nat]
        /\ told' \in [Steps -> SUBSET R!Terminal] /\ held' \in [Steps -> [{Worker} -> Nat]]
    <3>1. /\ up' /\ UNCHANGED <<up, undone, now, logs, reader, atEnd, told, held>>
          /\ faults' \in {faults, faults + 1}
      BY <1>1
    <3>2. /\ now \in Nat /\ faults \in Nat /\ undone \subseteq Steps
          /\ logs \in [Steps -> Nat] /\ reader \in [{} -> R!Reader] /\ atEnd \in [Steps -> Nat]
          /\ told \in [Steps -> SUBSET R!Terminal] /\ held \in [Steps -> [{Worker} -> Nat]]
      BY DEF R!RegistryTypeOK
    <3>3. faults' \in Nat
      BY <3>1, <3>2
    <3>4. up' \in BOOLEAN
      BY <1>1 DEF R!RegistryTypeOK
    <3> QED BY <3>1, <3>2, <3>3, <3>4
  <2>2. mem' \in R!Snapshot /\ disk' \in R!Snapshot
    BY <1>1, <1>2, <1>7
  <2> QED BY <1>8, <2>1, <2>2 DEF R!RegistryTypeOK
<1>10. disk' = mem' \/ (disk' = disk /\ ~Answered)
  BY <1>1, <1>2 DEF Answered
<1>11. \A t \in Steps : mem'.jobs[t].status = IF t = s THEN "queued" ELSE mem.jobs[t].status
  BY <1>1, <1>3, <1>5
<1> QED BY <1>1, <1>9, <1>10, <1>11 DEF Turns, Status

LEMMA LeaseTurns ==
    ASSUME R!RegistryTypeOK, NEW s \in Steps, R!Lease(s, Worker, 1)
    PROVE  /\ Turns(s, "running")
           /\ Status(s) \notin R!Terminal \cup {"canceling", "absent"}
<1> DEFINE new == [mem.jobs[s] EXCEPT !.status = "running", !.holder = Worker, !.expires = now + 1]
<1>1. mem.jobs[s] \in R!Job /\ now \in Nat
  BY DEF R!RegistryTypeOK, R!Snapshot
<1>2. new \in R!Job /\ new.status = "running"
  <2> DEFINE job == mem.jobs[s]
             n == now + 1
  <2>1. job \in R!Job /\ n \in Nat
    BY <1>1
  <2> HIDE DEF job, n
  <2>2. /\ [job EXCEPT !.status = "running", !.holder = Worker, !.expires = n] \in R!Job
        /\ [job EXCEPT !.status = "running", !.holder = Worker, !.expires = n].status = "running"
    BY <2>1 DEF R!Job, R!Statuses
  <2> QED BY <2>2 DEF job, n
<1>3. mem.jobs[s].status \notin R!Terminal \cup {"canceling"}
  BY DEF R!Lease
<1>4. R!Update(s, new, held' = [held EXCEPT ![s][Worker] = now + 1] /\ UNCHANGED <<told, promised>>)
  BY DEF R!Lease
<1> HIDE DEF new
<1>5. held' = [held EXCEPT ![s][Worker] = now + 1] /\ UNCHANGED <<told, promised>> => AnswersTyped
  <2>1. \A n \in Nat : held \in [Steps -> [{Worker} -> Nat]]
                       => [held EXCEPT ![s][Worker] = n] \in [Steps -> [{Worker} -> Nat]]
    OBVIOUS
  <2>2. now + 1 \in Nat
    BY <1>1
  <2>3. held \in [Steps -> [{Worker} -> Nat]]
          => [held EXCEPT ![s][Worker] = now + 1] \in [Steps -> [{Worker} -> Nat]]
    BY <2>1, <2>2
  <2> QED BY <2>3 DEF AnswersTyped
<1>6. R!Update(s, new, AnswersTyped)
  BY <1>4, <1>5 DEF R!Update
<1> QED BY <1>2, <1>3, <1>6, UpdateTurns DEF Status

LEMMA EndTurns ==
    ASSUME R!RegistryTypeOK, NEW s \in Steps, NEW o \in R!Terminal, R!End(s, o, Worker)
    PROVE  Turns(s, o) /\ Status(s) # "absent" /\ (Status(s) = o \/ Status(s) \notin R!Terminal)
<1> DEFINE new == IF mem.jobs[s].status = o THEN mem.jobs[s]
                  ELSE [mem.jobs[s] EXCEPT !.status = o, !.holder = R!Nobody, !.expires = 0]
<1>1. mem.jobs[s] \in R!Job
  BY DEF R!RegistryTypeOK, R!Snapshot
<1>2. new \in R!Job /\ new.status = o
  BY <1>1 DEF R!Job, R!Statuses
<1>3. mem.jobs[s].status = o \/ mem.jobs[s].status \notin R!Terminal
  BY DEF R!End
<1>4. R!Update(s, new, told' = [told EXCEPT ![s] = @ \cup {o}] /\ UNCHANGED <<held, promised>>)
  BY DEF R!End
<1> HIDE DEF new
<1>5. told' = [told EXCEPT ![s] = @ \cup {o}] /\ UNCHANGED <<held, promised>> => AnswersTyped
  BY DEF AnswersTyped
<1>6. R!Update(s, new, AnswersTyped)
  BY <1>4, <1>5 DEF R!Update
<1> QED BY <1>2, <1>3, <1>6, UpdateTurns DEF Status

LEMMA RegisterTurns ==
    ASSUME R!RegistryTypeOK, NEW s \in Steps,
           R!Update(s, mem.jobs[s], UNCHANGED <<told, held, promised>>)
    PROVE  Turns(s, Status(s)) /\ Status(s) # "absent"
<1> DEFINE job == mem.jobs[s]
<1>1. job \in R!Job
  BY DEF R!RegistryTypeOK, R!Snapshot
<1>2. UNCHANGED <<told, held, promised>> => AnswersTyped
  BY DEF AnswersTyped
<1>3. R!Update(s, job, AnswersTyped)
  BY <1>2 DEF R!Update
<1>4. job.status = Status(s)
  BY DEF Status
<1> HIDE DEF job
<1>5. Turns(s, job.status) /\ Status(s) # "absent"
  BY <1>1, <1>3, UpdateTurns
<1> QED BY <1>4, <1>5

LEMMA CancelTurns ==
    ASSUME R!RegistryTypeOK, NEW s \in Steps, R!Cancel(s)
    PROVE  /\ Turns(s, IF Status(s) \in R!Terminal THEN Status(s) ELSE "canceling")
           /\ Status(s) # "absent"
<1> DEFINE new == IF mem.jobs[s].status \in R!Terminal THEN mem.jobs[s]
                  ELSE [mem.jobs[s] EXCEPT !.status = "canceling"]
<1>1. mem.jobs[s] \in R!Job
  BY DEF R!RegistryTypeOK, R!Snapshot
<1>2. new \in R!Job /\ new.status = IF mem.jobs[s].status \in R!Terminal
                                    THEN mem.jobs[s].status ELSE "canceling"
  BY <1>1 DEF R!Job, R!Statuses
<1>3. R!Update(s, new, UNCHANGED R!answers)
  BY DEF R!Cancel
<1> HIDE DEF new
<1>4. UNCHANGED R!answers => AnswersTyped
  BY DEF AnswersTyped, R!answers
<1>5. R!Update(s, new, AnswersTyped)
  BY <1>3, <1>4 DEF R!Update
<1>6. Turns(s, new.status) /\ Status(s) # "absent"
  BY <1>2, <1>5, UpdateTurns
<1>7. new.status = IF Status(s) \in R!Terminal THEN Status(s) ELSE "canceling"
  BY <1>2 DEF Status
<1> QED BY <1>6, <1>7

\* A save in which no job that ended comes back.
Saving == /\ R!RegistryTypeOK'
          /\ up /\ up' /\ undone' = undone
          /\ \A t \in Steps : Status(t) \in R!Terminal => Status(t)' = Status(t)
          /\ disk' = mem' \/ (disk' = disk /\ ~Answered)

\* ... and none appears or succeeds.
Calm == \A t \in Steps : /\ Status(t)' = "absent" <=> Status(t) = "absent"
                         /\ Status(t)' = "succeeded" <=> Status(t) = "succeeded"

LEMMA TurnsSaves ==
    ASSUME NEW s \in Steps, NEW status, Turns(s, status),
           Status(s) \in R!Terminal => Status(s) = status
    PROVE  /\ Saving
           /\ Status(s)' = status
           /\ \A t \in Steps \ {s} : Status(t)' = Status(t)
           /\ Status(s) # "absent" /\ status # "absent" /\ (status = "succeeded" <=> Status(s) = "succeeded")
              => Calm
  BY DEF Turns, Saving, Calm

LEMMA InterruptSaves ==
    ASSUME R!RegistryTypeOK, R!RecoverInterrupted({})
    PROVE  Saving /\ Calm
<1> DEFINE s == [mem EXCEPT !.jobs = R!Recovered({})]
           lost == [status |-> "interrupted", holder |-> R!Nobody, expires |-> 0, process |-> "none"]
<1>1. /\ up /\ UNCHANGED <<up, now, logs, reader, undone, told, held, promised>>
      /\ mem' = s
      /\ \/ disk' = mem' /\ faults' = faults
         \/ disk' = disk /\ faults' = faults + 1
      /\ atEnd' = [j \in Steps |-> IF s.jobs[j].status \in R!Terminal
                                      /\ mem.jobs[j].status \notin R!Terminal
                                   THEN logs[j] ELSE atEnd[j]]
  BY DEF R!RecoverInterrupted, R!Persist, R!PersistFails, R!answers
<1>2. /\ mem \in R!Snapshot /\ disk \in R!Snapshot /\ now \in Nat /\ faults \in Nat
      /\ undone \subseteq Steps /\ promised \in [Steps -> SUBSET Steps]
      /\ logs \in [Steps -> Nat] /\ reader \in [{} -> R!Reader] /\ atEnd \in [Steps -> Nat]
      /\ told \in [Steps -> SUBSET R!Terminal] /\ held \in [Steps -> [{Worker} -> Nat]]
  BY DEF R!RegistryTypeOK
<1>3. lost \in R!Job /\ lost.status = "interrupted"
  BY DEF R!Job, R!Statuses, R!Terminal
<1>4. R!Recovered({}) = [j \in Steps |->
         IF mem.jobs[j].status \in R!Terminal \cup {"queued", "absent"} THEN mem.jobs[j] ELSE lost]
  BY DEF R!Recovered
<1> HIDE DEF lost
<1>5. s.jobs = R!Recovered({}) /\ s.keys = mem.keys /\ s = [jobs |-> s.jobs, keys |-> s.keys]
  BY <1>2 DEF R!Snapshot
<1>6. R!Recovered({}) \in [Steps -> R!Job]
  BY <1>2, <1>3, <1>4 DEF R!Snapshot
<1>7. s \in R!Snapshot
  BY <1>2, <1>5, <1>6 DEF R!Snapshot
<1>8. \A j \in Steps : s.jobs[j].status =
         IF mem.jobs[j].status \in R!Terminal \cup {"queued", "absent"} THEN mem.jobs[j].status
         ELSE "interrupted"
  BY <1>3, <1>4, <1>5
<1> HIDE DEF s
<1>9. atEnd' \in [Steps -> Nat]
  BY <1>1, <1>2
<1>10. faults' \in Nat /\ up' \in BOOLEAN
  BY <1>1, <1>2 DEF R!RegistryTypeOK
<1>11. mem' \in R!Snapshot /\ disk' \in R!Snapshot
  BY <1>1, <1>2, <1>7
<1>12. R!RegistryTypeOK'
  BY <1>1, <1>2, <1>9, <1>10, <1>11 DEF R!RegistryTypeOK
<1>13. disk' = mem' \/ (disk' = disk /\ ~Answered)
  BY <1>1, <1>2 DEF Answered
<1>14. \A j \in Steps : mem'.jobs[j].status =
         IF mem.jobs[j].status \in R!Terminal \cup {"queued", "absent"} THEN mem.jobs[j].status
         ELSE "interrupted"
  BY <1>1, <1>8
<1>15. up /\ up' /\ undone' = undone
  BY <1>1
<1>16. Saving
  BY <1>12, <1>13, <1>14, <1>15 DEF Saving, Status
<1>17. Calm
  BY <1>14 DEF Calm, Status, R!Terminal
<1> QED BY <1>16, <1>17

-----------------------------------------------------------------------------
(* What saves, and steps without one, leave of the invariant.              *)

LEMMA SavingKeeps ==
    ASSUME Remembers, Ordered(disk), Saving
    PROVE  /\ Remembers'
           /\ Ordered(mem)' => Ordered(disk)'
           /\ \A t \in Steps :
                 /\ Succeeded(t) => Succeeded(t)'
                 /\ Saved(t) = "succeeded" => Saved(t)' = "succeeded"
                 /\ Saved(t)' = "succeeded" => Saved(t) = "succeeded" \/ Status(t)' = "succeeded"
<1>1. \A t \in Steps : Saved(t)' = Saved(t) \/ Saved(t)' = Status(t)'
  BY DEF Saving, Saved, Status
<1>2. \A t \in Steps : Saved(t) \in R!Terminal => Status(t) = Saved(t) /\ Status(t)' = Saved(t)
  BY DEF Saving, Remembers
<1>3. Remembers'
  <2>1. CASE disk' = mem'
    BY <2>1 DEF Remembers, Saved, Status
  <2>2. CASE disk' = disk
    BY <1>2, <2>2 DEF Remembers, Saved, Status
  <2> QED BY <2>1, <2>2 DEF Saving
<1>4. Ordered(mem)' => Ordered(disk)'
  BY DEF Saving, Ordered
<1>5. ASSUME NEW t \in Steps
      PROVE  /\ Succeeded(t) => Succeeded(t)'
             /\ Saved(t) = "succeeded" => Saved(t)' = "succeeded"
             /\ Saved(t)' = "succeeded" => Saved(t) = "succeeded" \/ Status(t)' = "succeeded"
  <2>1. Status(t) = "succeeded" => Status(t)' = "succeeded"
    BY DEF Saving, R!Terminal
  <2>2. Saved(t) = "succeeded" => Saved(t)' = "succeeded"
    BY <1>1, <1>2 DEF R!Terminal
  <2>3. up /\ up' /\ undone' = undone
    BY DEF Saving
  <2> QED BY <1>1, <2>1, <2>2, <2>3 DEF Succeeded
<1> QED BY <1>3, <1>4, <1>5

LEMMA CalmKeeps ==
    ASSUME PlanningConstants, PInv, Saving, Calm, UNCHANGED <<artifact, history>>
    PROVE  /\ Remembers' /\ Ordered(mem)' /\ Ordered(disk)'
           /\ \A t \in Steps : /\ Backed(t)'
                               /\ Succeeded(t) => Succeeded(t)'
                               /\ Reached(t) /\ phase'[t] = phase[t] => Reached(t)'
<1>1. /\ Remembers'
      /\ Ordered(mem)' => Ordered(disk)'
      /\ \A t \in Steps :
            /\ Succeeded(t) => Succeeded(t)'
            /\ Saved(t) = "succeeded" => Saved(t)' = "succeeded"
            /\ Saved(t)' = "succeeded" => Saved(t) = "succeeded" \/ Status(t)' = "succeeded"
  BY SavingKeeps DEF PInv
<1>2. \A t \in Steps : Dependencies(t) \subseteq Steps
  BY StepNames
<1>3. Ordered(mem)'
  <2>1. \A t \in Steps : Status(t)' # "absent" => \A d \in Dependencies(t) : Status(d)' = "succeeded"
    BY <1>2 DEF PInv, Ordered, Calm, Status
  <2> QED BY <2>1 DEF Ordered, Status
<1>4. ASSUME NEW t \in Steps PROVE Backed(t)'
  BY <1>1 DEF PInv, Backed, Calm
<1>5. ASSUME NEW t \in Steps, Reached(t), phase'[t] = phase[t] PROVE Reached(t)'
  BY <1>1, <1>5 DEF Reached, Calm
<1> QED BY <1>1, <1>3, <1>4, <1>5

LEMMA StillKeeps ==
    ASSUME PInv, UNCHANGED registry
    PROVE  /\ R!RegistryTypeOK' /\ Remembers' /\ Ordered(mem)' /\ Ordered(disk)'
           /\ up' = up
           /\ \A t \in Steps : /\ Status(t)' = Status(t)
                               /\ Saved(t)' = Saved(t)
                               /\ Succeeded(t)' <=> Succeeded(t)
<1>1. /\ mem' = mem /\ disk' = disk /\ up' = up /\ now' = now /\ faults' = faults /\ logs' = logs
      /\ reader' = reader /\ told' = told /\ held' = held /\ promised' = promised
      /\ atEnd' = atEnd /\ undone' = undone
  BY DEF registry
<1>2. R!RegistryTypeOK'
  BY <1>1 DEF PInv, PipelineTypeOK, R!RegistryTypeOK
<1>3. Remembers' /\ Ordered(mem)' /\ Ordered(disk)'
  BY <1>1 DEF PInv, Remembers, Ordered, Status, Saved
<1>4. \A t \in Steps : /\ Status(t)' = Status(t)
                       /\ Saved(t)' = Saved(t)
                       /\ Succeeded(t)' <=> Succeeded(t)
  BY <1>1 DEF Status, Saved, Succeeded
<1> QED BY <1>1, <1>2, <1>3, <1>4

LEMMA GotoStep ==
    ASSUME PInv, NEW s \in Steps, NEW p \in Phases, Goto(s, p)
    PROVE  /\ phase' \in [Steps -> Phases]
           /\ phase'[s] = p
           /\ \A t \in Steps \ {s} : phase'[t] = phase[t]
  BY DEF PInv, PipelineTypeOK, Goto

\* Another step is as far as it was.
LEMMA OthersStay ==
    ASSUME NEW t \in Steps, Reached(t), phase'[t] = phase[t], artifact'[t] = artifact[t],
           history'[t] = history[t], Saved(t) = "succeeded" => Saved(t)' = "succeeded",
           Status(t)' = Status(t)
    PROVE  Reached(t)'
  BY DEF Reached

\* Nothing of a step that only begins or has failed is relied on.
LEMMA NothingReached ==
    ASSUME NEW t \in Steps, phase'[t] \in {"todo", "ensured", "failing", "failed"}
    PROVE  Reached(t)'
  BY DEF Reached

LEMMA TypeStays ==
    ASSUME PInv, R!RegistryTypeOK', running' \in BOOLEAN, phase' \in [Steps -> Phases],
           UNCHANGED <<records, kept, runs, calls, files>>
    PROVE  PipelineTypeOK'
<1>1. UNCHANGED <<records, kept, runs, calls, artifact, history, meta>>
  BY DEF files
<1> QED BY <1>1 DEF PInv, PipelineTypeOK

-----------------------------------------------------------------------------
(* Every step keeps the invariant.                                         *)

LEMMA EnsureKeeps ==
    ASSUME PlanningConstants, PInv, NEW s \in Steps, EnsureJob(s)
    PROVE  PInv'
<1>1. /\ running /\ running' = running /\ up
      /\ UNCHANGED <<records, kept, runs, calls, files>>
      /\ UNCHANGED <<artifact, history, meta, kept>>
      /\ \A d \in Dependencies(s) : phase[d] = "done"
  BY DEF EnsureJob, Same, files, Ready, PInv
<1>2. \A d \in Dependencies(s) : d \in Steps /\ Status(d) = "succeeded"
  BY <1>1, StepNames DEF PInv, Reached
<1>3. CASE UNCHANGED registry /\ Goto(s, "ensured")
  <2>1. /\ phase' \in [Steps -> Phases] /\ phase'[s] = "ensured"
        /\ \A t \in Steps \ {s} : phase'[t] = phase[t]
    BY <1>3, GotoStep DEF Phases
  <2>2. /\ R!RegistryTypeOK' /\ Remembers' /\ Ordered(mem)' /\ Ordered(disk)' /\ up' = up
        /\ \A t \in Steps : /\ Status(t)' = Status(t)
                            /\ Saved(t)' = Saved(t)
                            /\ Succeeded(t)' <=> Succeeded(t)
    BY <1>3, StillKeeps
  <2>3. PipelineTypeOK'
    BY <1>1, <2>1, <2>2, TypeStays DEF PInv, PipelineTypeOK
  <2>4. \A t \in Steps : Reached(t)'
    BY <1>1, <2>1, <2>2, OthersStay, NothingReached DEF PInv
  <2>5. \A t \in Steps : Backed(t)'
    BY <1>1, <2>2 DEF PInv, Backed
  <2>6. \A t \in meta'.artifacts \cup kept' : Succeeded(t)'
    BY <1>1, <2>2 DEF PInv, PipelineTypeOK
  <2> QED BY <1>1, <2>2, <2>3, <2>4, <2>5, <2>6 DEF PInv
<1>4. CASE R!CreateNew(s, s, "request") /\ Goto(s, IF Answered THEN "ensured" ELSE "failed")
  <2>1. /\ phase' \in [Steps -> Phases] /\ phase'[s] \in {"ensured", "failed"}
        /\ \A t \in Steps \ {s} : phase'[t] = phase[t]
    BY <1>4, GotoStep DEF Phases
  <2>2. Turns(s, "queued") /\ Status(s) = "absent"
    BY <1>4, CreateTurns DEF PInv, PipelineTypeOK
  <2>3. Saving /\ Status(s)' = "queued" /\ \A t \in Steps \ {s} : Status(t)' = Status(t)
    BY <2>2, TurnsSaves DEF R!Terminal
  <2>4. /\ Remembers'
        /\ Ordered(mem)' => Ordered(disk)'
        /\ \A t \in Steps :
              /\ Succeeded(t) => Succeeded(t)'
              /\ Saved(t) = "succeeded" => Saved(t)' = "succeeded"
              /\ Saved(t)' = "succeeded" => Saved(t) = "succeeded" \/ Status(t)' = "succeeded"
    BY <2>3, SavingKeeps DEF PInv
  <2>5. Ordered(mem)'
    <3>1. ASSUME NEW t \in Steps, Status(t)' # "absent", NEW d \in Dependencies(t)
          PROVE  Status(d)' = "succeeded"
      <4>1. d \in Steps /\ Status(d) = "succeeded"
        BY <1>2, <2>3, <3>1, StepNames DEF PInv, Ordered, Status
      <4> QED BY <2>2, <2>3, <4>1
    <3> QED BY <3>1 DEF Ordered, Status
  <2>6. PipelineTypeOK'
    BY <1>1, <2>1, <2>3, TypeStays DEF PInv, PipelineTypeOK, Saving
  <2>7. \A t \in Steps : Reached(t)'
    BY <1>1, <2>1, <2>3, <2>4, OthersStay, NothingReached DEF PInv
  <2>8. \A t \in Steps : Backed(t)'
    BY <1>1, <2>2, <2>3, <2>4 DEF PInv, Backed
  <2>9. \A t \in meta'.artifacts \cup kept' : Succeeded(t)'
    BY <1>1, <2>4 DEF PInv, PipelineTypeOK
  <2> QED BY <1>1, <2>3, <2>4, <2>5, <2>6, <2>7, <2>8, <2>9 DEF PInv, Saving
<1> QED BY <1>3, <1>4 DEF EnsureJob

\* A step that saves nothing.
LEMMA QuietKeeps ==
    ASSUME PInv, NEW s \in Steps, running, running' = running, UNCHANGED registry,
           PipelineTypeOK', Reached(s)', Backed(s)',
           \A t \in Steps \ {s} : /\ phase'[t] = phase[t]
                                  /\ artifact'[t] = artifact[t] /\ history'[t] = history[t],
           \A t \in meta'.artifacts \cup kept' : t \in meta.artifacts \cup kept \/ Succeeded(t)
    PROVE  PInv'
<1>1. /\ R!RegistryTypeOK' /\ Remembers' /\ Ordered(mem)' /\ Ordered(disk)' /\ up' = up
      /\ \A t \in Steps : /\ Status(t)' = Status(t)
                          /\ Saved(t)' = Saved(t)
                          /\ Succeeded(t)' <=> Succeeded(t)
  BY StillKeeps
<1>2. \A t \in Steps : Reached(t)'
  BY <1>1, OthersStay DEF PInv
<1>3. \A t \in Steps : Backed(t)'
  BY <1>1 DEF PInv, Backed
<1>4. \A t \in meta'.artifacts \cup kept' : Succeeded(t)'
  <2>1. meta'.artifacts \subseteq Steps /\ kept' \subseteq Steps
    BY DEF PipelineTypeOK
  <2>2. \A t \in meta.artifacts \cup kept : Succeeded(t)
    BY DEF PInv
  <2> QED BY <1>1, <2>1, <2>2
<1> QED BY <1>1, <1>2, <1>3, <1>4 DEF PInv

\* A step that saves, by which no job appears or succeeds.
LEMMA CalmStep ==
    ASSUME PlanningConstants, PInv, Saving, Calm, running' = running, PipelineTypeOK',
           UNCHANGED <<files, kept>>,
           running => \A t \in Steps : phase'[t] = phase[t] \/ Reached(t)'
    PROVE  PInv'
<1>1. UNCHANGED <<artifact, history, meta, kept>>
  BY DEF files
<1>2. /\ Remembers' /\ Ordered(mem)' /\ Ordered(disk)'
      /\ \A t \in Steps : /\ Backed(t)'
                          /\ Succeeded(t) => Succeeded(t)'
                          /\ Reached(t) /\ phase'[t] = phase[t] => Reached(t)'
  BY <1>1, CalmKeeps
<1>3. running' => \A t \in Steps : Reached(t)'
  BY <1>2 DEF PInv
<1>4. \A t \in meta'.artifacts \cup kept' : Succeeded(t)'
  BY <1>1, <1>2 DEF PInv, PipelineTypeOK
<1> QED BY <1>1, <1>2, <1>3, <1>4 DEF PInv, Saving

LEMMA RestoreKeeps ==
    ASSUME PInv, NEW s \in Steps, Restore(s)
    PROVE  PInv'
<1>1. /\ running /\ running' = running /\ UNCHANGED registry /\ up
      /\ UNCHANGED <<artifact, history, meta, runs, calls>>
      /\ Status(s) = "succeeded"
      /\ kept' = kept \/ kept' = kept \cup {s}
      /\ records' = records \/ records' = [records EXCEPT ![s] = IF @ = "none" THEN "bare" ELSE @]
      /\ Goto(s, "done") \/ Goto(s, "failed")
  BY DEF Restore, files, PInv
<1>2. /\ phase' \in [Steps -> Phases] /\ phase'[s] \in {"done", "failed"}
      /\ \A t \in Steps \ {s} : phase'[t] = phase[t]
  BY <1>1, GotoStep DEF Phases
<1>3. /\ R!RegistryTypeOK'
      /\ \A t \in Steps : Status(t)' = Status(t) /\ Saved(t)' = Saved(t)
  BY <1>1, StillKeeps
<1>4. PipelineTypeOK'
  <2>1. records' \in [Steps -> {"none", "full", "bare"}]
    <3>1. records \in [Steps -> {"none", "full", "bare"}]
      BY DEF PInv, PipelineTypeOK
    <3> QED BY <1>1, <3>1
  <2> QED BY <1>1, <1>2, <1>3, <2>1 DEF PInv, PipelineTypeOK
<1>5. Reached(s)'
  BY <1>1, <1>2, <1>3 DEF Reached
<1>6. Backed(s)'
  BY <1>1, <1>3 DEF PInv, Backed
<1>7. Succeeded(s)
  BY <1>1 DEF Succeeded
<1> QED BY <1>1, <1>2, <1>4, <1>5, <1>6, <1>7, QuietKeeps

LEMMA LeaseKeeps ==
    ASSUME PlanningConstants, PInv, NEW s \in Steps, LeaseStep(s)
    PROVE  PInv'
<1>1. /\ running /\ running' = running
      /\ UNCHANGED <<records, kept, runs, calls, files>>
      /\ UNCHANGED <<artifact, history, meta, kept>>
      /\ phase[s] = "ensured" /\ Status(s) # "succeeded"
  BY DEF LeaseStep, Same, files
<1>2. CASE UNCHANGED registry /\ Goto(s, "failed")
  <2>1. /\ phase' \in [Steps -> Phases] /\ phase'[s] = "failed"
        /\ \A t \in Steps \ {s} : phase'[t] = phase[t]
    BY <1>2, GotoStep DEF Phases
  <2>2. /\ R!RegistryTypeOK'
        /\ \A t \in Steps : Status(t)' = Status(t) /\ Saved(t)' = Saved(t)
    BY <1>2, StillKeeps
  <2>3. PipelineTypeOK'
    BY <1>1, <2>1, <2>2, TypeStays DEF PInv, PipelineTypeOK
  <2>4. Reached(s)' /\ Backed(s)'
    BY <1>1, <2>1, <2>2, NothingReached DEF PInv, Backed
  <2> QED BY <1>1, <1>2, <2>1, <2>3, <2>4, QuietKeeps
<1>3. CASE R!Lease(s, Worker, 1) /\ Goto(s, IF Answered THEN "leased" ELSE "failed")
  <2>1. /\ phase' \in [Steps -> Phases] /\ phase'[s] \in {"leased", "failed"}
        /\ \A t \in Steps \ {s} : phase'[t] = phase[t]
    BY <1>3, GotoStep DEF Phases
  <2>2. Turns(s, "running") /\ Status(s) \notin R!Terminal \cup {"canceling", "absent"}
    BY <1>3, LeaseTurns DEF PInv, PipelineTypeOK
  <2>3. Saving /\ Calm /\ Status(s)' = "running"
    BY <1>1, <2>2, TurnsSaves
  <2>4. PipelineTypeOK'
    BY <1>1, <2>1, <2>3, TypeStays DEF PInv, PipelineTypeOK, Saving
  <2>5. Reached(s)'
    BY <2>1, <2>3 DEF Reached
  <2> QED BY <1>1, <2>1, <2>3, <2>4, <2>5, CalmStep
<1> QED BY <1>2, <1>3 DEF LeaseStep

LEMMA ProduceKeeps ==
    ASSUME PInv, NEW s \in Steps, Produce(s)
    PROVE  PInv'
<1>1. /\ running /\ running' = running /\ UNCHANGED registry
      /\ UNCHANGED <<artifact, history, meta, records, kept, runs>>
      /\ phase[s] = "leased"
      /\ calls' = calls \/ calls' = calls \cup {s}
      /\ Goto(s, "produced") \/ Goto(s, "failing")
  BY DEF Produce, files
<1>2. /\ phase' \in [Steps -> Phases] /\ phase'[s] \in {"produced", "failing"}
      /\ \A t \in Steps \ {s} : phase'[t] = phase[t]
  BY <1>1, GotoStep DEF Phases
<1>3. /\ R!RegistryTypeOK'
      /\ \A t \in Steps : Status(t)' = Status(t) /\ Saved(t)' = Saved(t)
  BY <1>1, StillKeeps
<1>4. PipelineTypeOK'
  BY <1>1, <1>2, <1>3 DEF PInv, PipelineTypeOK
<1>5. Reached(s)' /\ Backed(s)'
  BY <1>1, <1>2, <1>3 DEF PInv, Reached, Backed
<1> QED BY <1>1, <1>2, <1>4, <1>5, QuietKeeps

LEMMA WriteArtifactKeeps ==
    ASSUME PInv, NEW s \in Steps, WriteArtifact(s)
    PROVE  PInv'
<1>1. /\ running /\ running' = running /\ up /\ UNCHANGED registry
      /\ UNCHANGED <<history, meta, records, kept, runs, calls>>
      /\ \/ /\ phase[s] = "produced"
            /\ artifact' = [artifact EXCEPT ![s] = "part"]
            /\ Goto(s, "truncated") \/ Goto(s, "failing")
         \/ /\ phase[s] = "truncated"
            /\ artifact' = [artifact EXCEPT ![s] = "whole"]
            /\ Goto(s, "written")
  BY DEF WriteArtifact, Same, PInv
<1>2. /\ phase' \in [Steps -> Phases]
      /\ phase'[s] \in {"truncated", "failing"} \/ (phase'[s] = "written" /\ phase[s] = "truncated")
      /\ \A t \in Steps \ {s} : phase'[t] = phase[t]
  <2>1. \A p \in {"truncated", "failing", "written"} : Goto(s, p) =>
           /\ phase' \in [Steps -> Phases] /\ phase'[s] = p
           /\ \A t \in Steps \ {s} : phase'[t] = phase[t]
    BY GotoStep DEF Phases
  <2> QED BY <1>1, <2>1
<1>3. /\ R!RegistryTypeOK'
      /\ \A t \in Steps : Status(t)' = Status(t) /\ Saved(t)' = Saved(t)
  BY <1>1, StillKeeps
<1>4. /\ artifact' \in [Steps -> {"none", "part", "whole"}]
      /\ \/ artifact'[s] = "part" /\ phase'[s] \in {"truncated", "failing"}
         \/ artifact'[s] = "whole" /\ phase'[s] = "written"
      /\ \A t \in Steps \ {s} : artifact'[t] = artifact[t]
  <2>1. artifact \in [Steps -> {"none", "part", "whole"}] /\ phase \in [Steps -> Phases]
    BY DEF PInv, PipelineTypeOK
  <2> QED BY <1>1, <2>1 DEF Goto
<1>5. PipelineTypeOK'
  BY <1>1, <1>2, <1>3, <1>4 DEF PInv, PipelineTypeOK
<1>6. Status(s) \notin {"absent", "succeeded"}
  BY <1>1 DEF PInv, Reached
<1>7. Saved(s) # "succeeded"
  BY <1>1, <1>6 DEF PInv, Remembers, R!Terminal
<1>8. Reached(s)'
  BY <1>3, <1>4, <1>6 DEF Reached
<1>9. Backed(s)'
  BY <1>1, <1>3, <1>6, <1>7 DEF PInv, Backed
<1> QED BY <1>1, <1>2, <1>4, <1>5, <1>8, <1>9, QuietKeeps

LEMMA RegisterKeeps ==
    ASSUME PlanningConstants, PInv, NEW s \in Steps, RegisterArtifact(s)
    PROVE  PInv'
<1>1. /\ running /\ running' = running
      /\ UNCHANGED <<records, kept, runs, calls, files>>
      /\ UNCHANGED <<artifact, history, meta, kept>>
      /\ phase[s] = "written"
      /\ R!Update(s, mem.jobs[s], UNCHANGED <<told, held, promised>>)
      /\ Goto(s, IF Answered THEN "registered" ELSE "failing")
  BY DEF RegisterArtifact, Same, files
<1>2. /\ phase' \in [Steps -> Phases] /\ phase'[s] \in {"registered", "failing"}
      /\ \A t \in Steps \ {s} : phase'[t] = phase[t]
  BY <1>1, GotoStep DEF Phases
<1>3. Turns(s, Status(s)) /\ Status(s) # "absent"
  BY <1>1, RegisterTurns DEF PInv, PipelineTypeOK
<1>4. Saving /\ Calm /\ Status(s)' = Status(s)
  BY <1>3, TurnsSaves
<1>5. PipelineTypeOK'
  BY <1>1, <1>2, <1>4, TypeStays DEF PInv, PipelineTypeOK, Saving
<1>6. Reached(s)'
  BY <1>1, <1>2, <1>4 DEF PInv, Reached
<1> QED BY <1>1, <1>2, <1>4, <1>5, <1>6, CalmStep

LEMMA LogFailsKeeps ==
    ASSUME PInv, NEW s \in Steps, LogFails(s)
    PROVE  PInv'
<1>1. /\ running /\ running' = running /\ UNCHANGED registry
      /\ UNCHANGED <<records, kept, runs, calls, files>>
      /\ UNCHANGED <<artifact, history, meta, kept>>
      /\ Goto(s, "failing")
  BY DEF LogFails, Same, files
<1>2. /\ phase' \in [Steps -> Phases] /\ phase'[s] = "failing"
      /\ \A t \in Steps \ {s} : phase'[t] = phase[t]
  BY <1>1, GotoStep DEF Phases
<1>3. /\ R!RegistryTypeOK'
      /\ \A t \in Steps : Status(t)' = Status(t) /\ Saved(t)' = Saved(t)
  BY <1>1, StillKeeps
<1>4. PipelineTypeOK'
  BY <1>1, <1>2, <1>3, TypeStays DEF PInv, PipelineTypeOK
<1>5. Reached(s)' /\ Backed(s)'
  BY <1>1, <1>2, <1>3, NothingReached DEF PInv, Backed
<1> QED BY <1>1, <1>2, <1>4, <1>5, QuietKeeps

LEMMA CompleteKeeps ==
    ASSUME PlanningConstants, PInv, NEW s \in Steps, CompleteStep(s)
    PROVE  PInv'
<1>1. /\ running /\ running' = running /\ up
      /\ UNCHANGED <<records, kept, runs, calls, files>>
      /\ UNCHANGED <<artifact, history, meta, kept>>
      /\ phase[s] = "registered"
  BY DEF CompleteStep, Same, files, PInv
<1>2. Status(s) \notin {"absent", "succeeded"} /\ artifact[s] = "whole"
  BY <1>1 DEF PInv, Reached
<1>3. CASE UNCHANGED registry /\ Goto(s, "failed")
  <2>1. /\ phase' \in [Steps -> Phases] /\ phase'[s] = "failed"
        /\ \A t \in Steps \ {s} : phase'[t] = phase[t]
    BY <1>3, GotoStep DEF Phases
  <2>2. /\ R!RegistryTypeOK'
        /\ \A t \in Steps : Status(t)' = Status(t) /\ Saved(t)' = Saved(t)
    BY <1>3, StillKeeps
  <2>3. PipelineTypeOK'
    BY <1>1, <2>1, <2>2, TypeStays DEF PInv, PipelineTypeOK
  <2>4. Reached(s)' /\ Backed(s)'
    BY <1>1, <2>1, <2>2, NothingReached DEF PInv, Backed
  <2> QED BY <1>1, <1>3, <2>1, <2>3, <2>4, QuietKeeps
<1>4. CASE R!End(s, "succeeded", Worker) /\ Goto(s, IF Answered THEN "completed" ELSE "failed")
  <2>1. /\ phase' \in [Steps -> Phases]
        /\ phase'[s] = "failed" \/ (phase'[s] = "completed" /\ Answered)
        /\ \A t \in Steps \ {s} : phase'[t] = phase[t]
    BY <1>4, GotoStep DEF Phases
  <2>2. Turns(s, "succeeded") /\ (Status(s) = "succeeded" \/ Status(s) \notin R!Terminal)
    BY <1>4, EndTurns DEF PInv, PipelineTypeOK, R!Terminal
  <2>3. /\ Saving /\ Status(s)' = "succeeded"
        /\ \A t \in Steps \ {s} : Status(t)' = Status(t)
    BY <1>2, <2>2, TurnsSaves
  <2>4. /\ Remembers'
        /\ Ordered(mem)' => Ordered(disk)'
        /\ \A t \in Steps :
              /\ Succeeded(t) => Succeeded(t)'
              /\ Saved(t) = "succeeded" => Saved(t)' = "succeeded"
              /\ Saved(t)' = "succeeded" => Saved(t) = "succeeded" \/ Status(t)' = "succeeded"
    BY <2>3, SavingKeeps DEF PInv
  <2>5. Ordered(mem)'
    <3>1. ASSUME NEW t \in Steps, Status(t)' # "absent", NEW d \in Dependencies(t)
          PROVE  Status(d)' = "succeeded"
      <4>1. d \in Steps /\ Status(d) = "succeeded"
        BY <1>2, <2>3, <3>1, StepNames DEF PInv, Ordered, Status
      <4> QED BY <2>3, <4>1
    <3> QED BY <3>1 DEF Ordered, Status
  <2>6. PipelineTypeOK'
    BY <1>1, <2>1, <2>3, TypeStays DEF PInv, PipelineTypeOK, Saving
  <2>7. Saved(s) # "succeeded" /\ history[s] # 1
    BY <1>1, <1>2 DEF PInv, Remembers, Backed, R!Terminal
  <2>8. history[s] = 0
    BY <2>7 DEF PInv, Backed, PipelineTypeOK
  <2>9. Answered => Saved(s)' = "succeeded"
    BY <2>2, <2>3 DEF Turns, Saved, Status
  <2>10. Reached(s)'
    BY <1>1, <2>1, <2>8, <2>9 DEF Reached
  <2>11. \A t \in Steps : Reached(t)'
    BY <1>1, <2>1, <2>3, <2>4, <2>10, OthersStay DEF PInv
  <2>12. \A t \in Steps : Backed(t)'
    BY <1>1, <1>2, <2>3, <2>4 DEF PInv, Backed
  <2>13. \A t \in meta'.artifacts \cup kept' : Succeeded(t)'
    BY <1>1, <2>4 DEF PInv, PipelineTypeOK
  <2> QED BY <1>1, <2>3, <2>4, <2>5, <2>6, <2>11, <2>12, <2>13 DEF PInv, Saving
<1> QED BY <1>3, <1>4 DEF CompleteStep

LEMMA NoteKeeps ==
    ASSUME PInv, NEW s \in Steps, Note(s)
    PROVE  PInv'
<1>1. /\ running /\ running' = running /\ up /\ UNCHANGED registry
      /\ UNCHANGED <<artifact, meta, runs, calls>>
      /\ phase[s] = "completed"
      /\ records' = [records EXCEPT ![s] = "full"]
      /\ kept' = kept \cup {s}
      /\ \/ history' = [history EXCEPT ![s] = @ + 1] /\ Goto(s, "noted")
         \/ history' = history /\ Goto(s, "failed")
  BY DEF Note, PInv
<1>2. Saved(s) = "succeeded" /\ history[s] = 0
  BY <1>1 DEF PInv, Reached
<1>3. /\ phase' \in [Steps -> Phases] /\ phase'[s] \in {"noted", "failed"}
      /\ \A t \in Steps \ {s} : phase'[t] = phase[t]
  BY <1>1, GotoStep DEF Phases
<1>4. /\ R!RegistryTypeOK'
      /\ \A t \in Steps : Status(t)' = Status(t) /\ Saved(t)' = Saved(t)
  BY <1>1, StillKeeps
<1>5. /\ history' \in [Steps -> Nat] /\ history'[s] <= 1
      /\ \A t \in Steps \ {s} : history'[t] = history[t]
  <2>1. history \in [Steps -> Nat]
    BY DEF PInv, PipelineTypeOK
  <2> QED BY <1>1, <1>2, <2>1
<1>6. PipelineTypeOK'
  <2>1. records' \in [Steps -> {"none", "full", "bare"}]
    <3>1. records \in [Steps -> {"none", "full", "bare"}]
      BY DEF PInv, PipelineTypeOK
    <3> QED BY <1>1, <3>1
  <2> QED BY <1>1, <1>3, <1>4, <1>5, <2>1 DEF PInv, PipelineTypeOK
<1>7. Reached(s)'
  BY <1>2, <1>3, <1>4 DEF Reached
<1>8. Backed(s)'
  BY <1>1, <1>2, <1>4, <1>5 DEF PInv, Backed
<1>9. Status(s) = "succeeded"
  BY <1>1, <1>2 DEF PInv, Remembers, R!Terminal
<1>10. Succeeded(s)
  BY <1>1, <1>9 DEF Succeeded
<1> QED BY <1>1, <1>3, <1>5, <1>6, <1>7, <1>8, <1>10, QuietKeeps

LEMMA WriteMetaKeeps ==
    ASSUME PInv, NEW s \in Steps, WriteMeta(s)
    PROVE  PInv'
<1>1. /\ running /\ running' = running /\ up /\ UNCHANGED registry
      /\ UNCHANGED <<artifact, history, records, kept, runs, calls>>
      /\ phase[s] = "noted"
      /\ meta' = meta \/ meta' = [artifacts |-> kept, steps |-> [t \in Steps |-> "none"]]
      /\ Goto(s, "done") \/ Goto(s, "failed")
  BY DEF WriteMeta, Same, PInv
<1>2. Status(s) = "succeeded"
  BY <1>1 DEF PInv, Reached, Remembers, R!Terminal
<1>3. /\ phase' \in [Steps -> Phases] /\ phase'[s] \in {"done", "failed"}
      /\ \A t \in Steps \ {s} : phase'[t] = phase[t]
  BY <1>1, GotoStep DEF Phases
<1>4. /\ R!RegistryTypeOK'
      /\ \A t \in Steps : Status(t)' = Status(t) /\ Saved(t)' = Saved(t)
  BY <1>1, StillKeeps
<1>5. /\ meta'.artifacts \subseteq meta.artifacts \cup kept
      /\ meta'.steps \in [Steps -> {"none", "full", "bare"}]
  BY <1>1 DEF PInv, PipelineTypeOK
<1>6. PipelineTypeOK'
  BY <1>1, <1>3, <1>4, <1>5 DEF PInv, PipelineTypeOK
<1>7. Reached(s)' /\ Backed(s)'
  BY <1>1, <1>2, <1>3, <1>4 DEF PInv, Reached, Backed
<1> QED BY <1>1, <1>3, <1>5, <1>6, <1>7, QuietKeeps

LEMMA FailJobKeeps ==
    ASSUME PlanningConstants, PInv, NEW s \in Steps, FailJob(s)
    PROVE  PInv'
<1>1. /\ running /\ running' = running
      /\ UNCHANGED <<records, kept, runs, calls, files>>
      /\ UNCHANGED <<artifact, history, meta, kept>>
      /\ Goto(s, "failed")
  BY DEF FailJob, Same, files
<1>2. /\ phase' \in [Steps -> Phases] /\ phase'[s] = "failed"
      /\ \A t \in Steps \ {s} : phase'[t] = phase[t]
  BY <1>1, GotoStep DEF Phases
<1>3. CASE UNCHANGED registry
  <2>1. /\ R!RegistryTypeOK'
        /\ \A t \in Steps : Status(t)' = Status(t) /\ Saved(t)' = Saved(t)
    BY <1>3, StillKeeps
  <2>2. PipelineTypeOK'
    BY <1>1, <1>2, <2>1, TypeStays DEF PInv, PipelineTypeOK
  <2>3. Reached(s)' /\ Backed(s)'
    BY <1>1, <1>2, <2>1, NothingReached DEF PInv, Backed
  <2> QED BY <1>1, <1>2, <1>3, <2>2, <2>3, QuietKeeps
<1>4. CASE R!End(s, "failed", Worker)
  <2>1. /\ Turns(s, "failed") /\ Status(s) # "absent"
        /\ Status(s) = "failed" \/ Status(s) \notin R!Terminal
    BY <1>4, EndTurns DEF PInv, PipelineTypeOK, R!Terminal
  <2>2. Saving /\ Calm
    BY <2>1, TurnsSaves DEF R!Terminal
  <2>3. PipelineTypeOK'
    BY <1>1, <1>2, <2>2, TypeStays DEF PInv, PipelineTypeOK, Saving
  <2>4. Reached(s)'
    BY <1>2, NothingReached
  <2> QED BY <1>1, <1>2, <2>2, <2>3, <2>4, CalmStep
<1> QED BY <1>3, <1>4 DEF FailJob

LEMMA StartKeeps ==
    ASSUME PInv, Start
    PROVE  PInv'
<1>1. /\ up /\ ~running /\ running' = TRUE /\ UNCHANGED registry
      /\ UNCHANGED <<artifact, history, meta>>
      /\ runs' = runs + 1
      /\ phase' = [s \in Steps |-> "todo"]
      /\ records' = meta.steps /\ kept' = meta.artifacts /\ calls' = {}
  BY DEF Start, files
<1>2. /\ R!RegistryTypeOK' /\ Remembers' /\ Ordered(mem)' /\ Ordered(disk)' /\ up' = up
      /\ \A t \in Steps : /\ Status(t)' = Status(t)
                          /\ Saved(t)' = Saved(t)
                          /\ Succeeded(t)' <=> Succeeded(t)
  BY <1>1, StillKeeps
<1>3. phase' \in [Steps -> Phases] /\ \A t \in Steps : phase'[t] = "todo"
  BY <1>1 DEF Phases
<1>4. PipelineTypeOK'
  BY <1>1, <1>2, <1>3 DEF PInv, PipelineTypeOK
<1>5. \A t \in Steps : Reached(t)'
  BY <1>3, NothingReached
<1>6. \A t \in Steps : Backed(t)'
  BY <1>1, <1>2 DEF PInv, Backed
<1>7. \A t \in meta'.artifacts \cup kept' : Succeeded(t)'
  BY <1>1, <1>2 DEF PInv, PipelineTypeOK
<1> QED BY <1>1, <1>2, <1>4, <1>5, <1>6, <1>7 DEF PInv

LEMMA RunEnds ==
    ASSUME PInv, Over, UNCHANGED registry, UNCHANGED <<artifact, history>>,
           meta' = meta \/ meta' = [artifacts |-> kept, steps |-> records]
    PROVE  PInv'
<1>1. /\ running' = FALSE /\ kept' = {} /\ calls' = {} /\ runs' = runs
      /\ phase' \in [Steps -> Phases]
      /\ records' \in [Steps -> {"none", "full", "bare"}]
  BY DEF Over, Phases
<1>2. /\ R!RegistryTypeOK' /\ Remembers' /\ Ordered(mem)' /\ Ordered(disk)' /\ up' = up
      /\ \A t \in Steps : /\ Status(t)' = Status(t)
                          /\ Saved(t)' = Saved(t)
                          /\ Succeeded(t)' <=> Succeeded(t)
  BY StillKeeps
<1>3. /\ meta'.artifacts \subseteq meta.artifacts \cup kept /\ meta'.artifacts \subseteq Steps
      /\ meta'.steps \in [Steps -> {"none", "full", "bare"}]
  BY DEF PInv, PipelineTypeOK
<1>4. PipelineTypeOK'
  BY <1>1, <1>2, <1>3 DEF PInv, PipelineTypeOK
<1>5. \A t \in Steps : Backed(t)'
  BY <1>2 DEF PInv, Backed
<1>6. \A t \in meta'.artifacts \cup kept' : Succeeded(t)'
  <2>1. \A t \in meta.artifacts \cup kept : Succeeded(t)
    BY DEF PInv
  <2> QED BY <1>1, <1>2, <1>3, <2>1
<1> QED BY <1>1, <1>2, <1>4, <1>5, <1>6 DEF PInv

LEMMA NobodyThere ==
    /\ R!EmptySnapshot \in R!Snapshot
    /\ \A t \in Steps : R!EmptySnapshot.jobs[t].status = "absent"
<1>1. R!NoJob \in R!Job /\ R!NoJob.status = "absent"
  BY DEF R!NoJob, R!NewJob, R!Job, R!Statuses
<1> QED BY <1>1 DEF R!EmptySnapshot, R!Snapshot

LEMMA ExitKeeps ==
    ASSUME PInv, Exit
    PROVE  PInv'
<1>1. /\ up /\ ~up' /\ mem' = R!EmptySnapshot /\ up' = FALSE
      /\ reader' = [r \in {} |-> IF reader[r].phase = "chunk"
                                 THEN [reader[r] EXCEPT !.phase = "status"] ELSE reader[r]]
      /\ undone' = undone \cup {j \in Steps : /\ mem.jobs[j].status \in R!Terminal
                                              /\ disk.jobs[j].status \notin R!Terminal}
      /\ UNCHANGED <<disk, now, faults, logs, told, held, promised, atEnd>>
  BY DEF Exit, R!Crash, R!answers
<1>2. /\ running' = FALSE /\ kept' = {} /\ calls' = {} /\ runs' = runs
      /\ phase' \in [Steps -> Phases]
      /\ records' \in [Steps -> {"none", "full", "bare"}]
      /\ UNCHANGED <<artifact, history, meta>>
  BY DEF Exit, Over, Phases, files
<1>3. R!RegistryTypeOK'
  <2>1. undone' \subseteq Steps /\ reader' \in [{} -> R!Reader]
    BY <1>1 DEF PInv, PipelineTypeOK, R!RegistryTypeOK
  <2>2. mem' \in R!Snapshot /\ disk' \in R!Snapshot
    BY <1>1, NobodyThere DEF PInv, PipelineTypeOK, R!RegistryTypeOK
  <2> QED BY <1>1, <2>1, <2>2 DEF PInv, PipelineTypeOK, R!RegistryTypeOK
<1>4. PipelineTypeOK'
  BY <1>2, <1>3 DEF PInv, PipelineTypeOK
<1>5. /\ \A t \in Steps : mem'.jobs[t].status = "absent"
      /\ \A t \in Steps : Status(t)' = "absent" /\ Saved(t)' = Saved(t)
  BY <1>1, NobodyThere DEF Status, Saved
<1>6. Ordered(mem)' /\ Ordered(disk)' /\ Remembers'
  BY <1>1, <1>5 DEF PInv, Ordered, Remembers
<1>7. \A t \in Steps : Backed(t)'
  BY <1>2, <1>5 DEF PInv, Backed
<1>8. ASSUME NEW t \in Steps, Succeeded(t) PROVE Succeeded(t)'
  <2>1. CASE t \in undone
    BY <1>1, <2>1 DEF Succeeded
  <2>2. CASE Status(t) = "succeeded" /\ Saved(t) \in R!Terminal
    BY <1>1, <1>5, <2>2 DEF PInv, Remembers, Succeeded
  <2>3. CASE Status(t) = "succeeded" /\ Saved(t) \notin R!Terminal
    <3>1. t \in undone'
      BY <1>1, <2>3 DEF Status, Saved, R!Terminal
    <3> QED BY <3>1 DEF Succeeded
  <2> QED BY <1>1, <1>8, <2>1, <2>2, <2>3 DEF Succeeded
<1>9. \A t \in meta'.artifacts \cup kept' : Succeeded(t)'
  <2>1. meta'.artifacts \subseteq Steps /\ kept' = {}
    BY <1>2, <1>4 DEF PipelineTypeOK
  <2>2. \A t \in meta.artifacts : Succeeded(t)
    BY DEF PInv
  <2> QED BY <1>2, <1>8, <2>1, <2>2
<1> QED BY <1>2, <1>4, <1>6, <1>7, <1>9 DEF PInv

LEMMA RecoverKeeps ==
    ASSUME PInv, Recover
    PROVE  PInv'
<1>1. /\ ~up /\ up' = TRUE /\ mem' = disk
      /\ UNCHANGED <<disk, now, faults, logs, reader, told, held, promised, atEnd, undone>>
  BY DEF Recover, R!Restart, R!answers
<1>2. /\ ~running /\ UNCHANGED <<running, phase, records, artifact, history, meta, kept, runs, calls>>
  BY <1>1 DEF PInv, Recover, files
<1>3. R!RegistryTypeOK'
  BY <1>1 DEF PInv, PipelineTypeOK, R!RegistryTypeOK
<1>4. PipelineTypeOK'
  BY <1>2, <1>3 DEF PInv, PipelineTypeOK
<1>5. \A t \in Steps : Status(t)' = Saved(t) /\ Saved(t)' = Saved(t)
  BY <1>1 DEF Status, Saved
<1>6. Ordered(mem)' /\ Ordered(disk)' /\ Remembers'
  BY <1>1, <1>5 DEF PInv, Ordered, Remembers
<1>7. \A t \in Steps : Backed(t)'
  BY <1>2, <1>5 DEF PInv, Backed
<1>8. \A t \in meta'.artifacts \cup kept' : Succeeded(t)'
  <2>1. \A t \in Steps : Succeeded(t) => Succeeded(t)'
    BY <1>1, <1>5 DEF Succeeded
  <2> QED BY <1>2, <2>1 DEF PInv, PipelineTypeOK
<1> QED BY <1>1, <1>2, <1>4, <1>6, <1>7, <1>8 DEF PInv

LEMMA CancelKeeps ==
    ASSUME PlanningConstants, PInv, NEW s \in Steps, CancelStep(s)
    PROVE  PInv'
<1>1. /\ R!Cancel(s) /\ running' = running /\ phase' = phase
      /\ UNCHANGED <<records, kept, runs, calls, files>> /\ UNCHANGED <<files, kept>>
  BY DEF CancelStep
<1>2. /\ Turns(s, IF Status(s) \in R!Terminal THEN Status(s) ELSE "canceling")
      /\ Status(s) # "absent"
  BY <1>1, CancelTurns DEF PInv, PipelineTypeOK
<1>3. Saving /\ Calm
  <2>1. CASE Status(s) \in R!Terminal
    <3>1. Turns(s, Status(s))
      BY <1>2, <2>1
    <3> QED BY <1>2, <3>1, TurnsSaves
  <2>2. CASE Status(s) \notin R!Terminal
    <3>1. Turns(s, "canceling")
      BY <1>2, <2>2
    <3> QED BY <1>2, <2>2, <3>1, TurnsSaves DEF R!Terminal
  <2> QED BY <2>1, <2>2
<1>4. PipelineTypeOK'
  BY <1>1, <1>3, TypeStays DEF PInv, PipelineTypeOK, Saving
<1> QED BY <1>1, <1>3, <1>4, CalmStep

LEMMA InterruptKeeps ==
    ASSUME PlanningConstants, PInv, Interrupt
    PROVE  PInv'
<1>1. /\ R!RecoverInterrupted({}) /\ running' = running /\ phase' = phase
      /\ UNCHANGED <<records, kept, runs, calls, files>> /\ UNCHANGED <<files, kept>>
  BY DEF Interrupt
<1>2. Saving /\ Calm
  BY <1>1, InterruptSaves DEF PInv, PipelineTypeOK
<1>3. PipelineTypeOK'
  BY <1>1, <1>2, TypeStays DEF PInv, PipelineTypeOK, Saving
<1> QED BY <1>1, <1>2, <1>3, CalmStep

LEMMA PlanningInit == Init => PInv
<1> SUFFICES ASSUME Init PROVE PInv
  OBVIOUS
<1>1. /\ mem = R!EmptySnapshot /\ disk = R!EmptySnapshot /\ up = TRUE /\ now = 0 /\ faults = 0
      /\ logs = [j \in Steps |-> 0] /\ reader = [r \in {} |-> R!NotReading]
      /\ told = [j \in Steps |-> {}] /\ held = [j \in Steps |-> [h \in {Worker} |-> 0]]
      /\ promised = [k \in Steps |-> {}] /\ undone = {} /\ atEnd = [j \in Steps |-> 0]
  BY DEF Init, R!Init
<1>2. R!RegistryTypeOK
  BY <1>1, NobodyThere DEF R!RegistryTypeOK
<1>3. /\ running = FALSE /\ phase = [s \in Steps |-> "todo"]
      /\ records = [s \in Steps |-> "none"] /\ artifact = [s \in Steps |-> "none"]
      /\ history = [s \in Steps |-> 0] /\ meta = [artifacts |-> {}, steps |-> records]
      /\ kept = {} /\ runs = 0 /\ calls = {}
  BY DEF Init
<1>4. PipelineTypeOK
  BY <1>2, <1>3 DEF PipelineTypeOK, Phases
<1>5. \A t \in Steps : Status(t) = "absent" /\ Saved(t) = "absent"
  BY <1>1, NobodyThere DEF Status, Saved
<1>6. Remembers /\ Ordered(mem) /\ Ordered(disk)
  BY <1>5 DEF Remembers, Ordered, Status, Saved, R!Terminal
<1>7. \A t \in Steps : Backed(t)
  BY <1>3, <1>5 DEF Backed
<1> QED BY <1>3, <1>4, <1>6, <1>7 DEF PInv

LEMMA PlanningStep ==
    ASSUME PlanningConstants, PInv, [Next]_vars
    PROVE  PInv'
<1>1. ASSUME NEW s \in Steps, StepOf(s) PROVE PInv'
  BY <1>1, EnsureKeeps, RestoreKeeps, LeaseKeeps, ProduceKeeps, WriteArtifactKeeps, RegisterKeeps,
     LogFailsKeeps, CompleteKeeps, NoteKeeps, WriteMetaKeeps, FailJobKeeps DEF StepOf
<1>2. ASSUME NEW s \in Steps, CancelStep(s) PROVE PInv'
  BY <1>2, CancelKeeps
<1>3. CASE Start
  BY <1>3, StartKeeps
<1>4. CASE Stop \/ Finish
  BY <1>4, RunEnds DEF Stop, Finish, files
<1>5. CASE Exit \/ Recover \/ Interrupt
  BY <1>5, ExitKeeps, RecoverKeeps, InterruptKeeps
<1>6. CASE UNCHANGED vars
  <2>1. UNCHANGED registry
        /\ UNCHANGED <<running, phase, records, artifact, history, meta, kept, runs, calls>>
    BY <1>6 DEF vars, files
  <2>2. /\ R!RegistryTypeOK' /\ Remembers' /\ Ordered(mem)' /\ Ordered(disk)' /\ up' = up
        /\ \A t \in Steps : /\ Status(t)' = Status(t)
                            /\ Saved(t)' = Saved(t)
                            /\ Succeeded(t)' <=> Succeeded(t)
    BY <2>1, StillKeeps
  <2>3. PipelineTypeOK'
    BY <2>1, <2>2 DEF PInv, PipelineTypeOK
  <2>4. running => \A t \in Steps : Reached(t)'
    BY <2>1, <2>2, OthersStay DEF PInv
  <2>5. \A t \in Steps : Backed(t)'
    BY <2>1, <2>2 DEF PInv, Backed
  <2>6. \A t \in meta'.artifacts \cup kept' : Succeeded(t)'
    BY <2>1, <2>2 DEF PInv, PipelineTypeOK
  <2> QED BY <2>1, <2>2, <2>3, <2>4, <2>5, <2>6 DEF PInv
<1> QED BY <1>1, <1>2, <1>3, <1>4, <1>5, <1>6 DEF Next

\* What the invariant says of the files.
LEMMA PInvMeans ==
    ASSUME PInv
    PROVE  CompletedHasArtifact /\ DependenciesDurable /\ HistoryOnce /\ MetaIsTrue
<1>1. CompletedHasArtifact /\ HistoryOnce
  BY DEF PInv, Backed, Saved, CompletedHasArtifact, HistoryOnce
<1>2. DependenciesDurable
  BY DEF PInv, Ordered, DependenciesDurable
<1>3. MetaIsTrue
  <2>1. \A s \in meta.artifacts : s \in Steps /\ Succeeded(s) /\ Backed(s)
    BY DEF PInv, PipelineTypeOK
  <2> QED BY <2>1 DEF MetaIsTrue, Succeeded, Backed
<1> QED BY <1>1, <1>2, <1>3

-----------------------------------------------------------------------------
(* Theorems.                                                               *)

LEMMA PInvHolds == ASSUME PlanningConstants PROVE Spec => []PInv
<1>1. Init => PInv
  BY PlanningInit
<1>2. PInv /\ [Next]_vars => PInv'
  BY PlanningStep
<1> QED BY <1>1, <1>2, PTL DEF Spec

\* The variables of the pipeline stay well typed, for any candidates and refinement rounds.
THEOREM PipelineTypeCorrect == ASSUME PlanningConstants PROVE Spec => []PipelineTypeOK
<1>1. PInv => PipelineTypeOK
  BY DEF PInv
<1> QED BY <1>1, PInvHolds, PTL

\* planning.Service.runStep: a job that the file calls succeeded has its whole artifact and
\* one line of history at most, the file never has a job without the success of what it
\* depends on, and meta.json names whole artifacts only, but for the steps whose success died
\* with a daemon's memory.
THEOREM FilesAlwaysAgree ==
    ASSUME PlanningConstants
    PROVE  Spec => [](CompletedHasArtifact /\ DependenciesDurable /\ HistoryOnce /\ MetaIsTrue)
<1>1. PInv => CompletedHasArtifact /\ DependenciesDurable /\ HistoryOnce /\ MetaIsTrue
  BY PInvMeans
<1> QED BY <1>1, PInvHolds, PTL

\* Service.Run after a failure or an exit: no model is called for a step that has succeeded.
THEOREM NeverRunsAgain == ASSUME PlanningConstants PROVE Spec => ResumesWithoutRepeating
<1>1. ASSUME PInv, [Next]_vars PROVE [NoModelTwice]_vars
  <2>1. ASSUME NEW s \in Steps, Produce(s) PROVE NoModelTwice
    <3>1. calls' \ calls \subseteq {s} /\ Saved(s) # "succeeded"
      <4>1. running /\ phase[s] = "leased" /\ (calls' = calls \/ calls' = calls \cup {s})
        BY <2>1 DEF Produce
      <4>2. up /\ Status(s) # "succeeded" /\ Remembers
        BY <1>1, <4>1 DEF PInv, Reached
      <4>3. Saved(s) # "succeeded"
        BY <4>2 DEF Remembers, R!Terminal
      <4> QED BY <4>1, <4>3
    <3> QED BY <3>1 DEF NoModelTwice, Saved
  <2>2. ASSUME calls' = calls \/ calls' = {} PROVE NoModelTwice
    BY <2>2 DEF NoModelTwice
  <2>3. ASSUME NEW s \in Steps, StepOf(s) PROVE NoModelTwice
    BY <2>1, <2>2, <2>3 DEF StepOf, EnsureJob, Restore, LeaseStep, WriteArtifact, RegisterArtifact,
       LogFails, CompleteStep, Note, WriteMeta, FailJob, Same
  <2>4. ASSUME NEW s \in Steps, CancelStep(s) PROVE NoModelTwice
    BY <2>2, <2>4 DEF CancelStep
  <2>5. Start \/ Stop \/ Finish \/ Exit \/ Recover \/ Interrupt => NoModelTwice
    BY <2>2 DEF Start, Stop, Finish, Exit, Recover, Interrupt, Over
  <2> QED BY <1>1, <2>3, <2>4, <2>5 DEF Next
<1>2. PInv /\ [Next]_vars => [NoModelTwice]_vars
  BY <1>1
<1> QED BY <1>2, PInvHolds, PTL DEF Spec, ResumesWithoutRepeating
=============================================================================
