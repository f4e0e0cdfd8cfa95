-------------------------- MODULE PlanningPipeline --------------------------
(***************************************************************************)
(* planning.Service.Run: a graph of steps, each a job of the registry.     *)
(*                                                                         *)
(* A step finds or creates its job, leases it, runs a model, writes its    *)
(* artifact, registers it, writes a log line and completes the job; then   *)
(* it writes history.jsonl and meta.json.  Candidates run side by side,    *)
(* everything else in order.  A run that starts again after a failure or   *)
(* an exit of the daemon restores the steps whose jobs have succeeded.     *)
(* Calls of the registry are the operations of JobRegistry: a call has     *)
(* failed exactly if the count of failed saves has grown.                  *)
(***************************************************************************)
EXTENDS Integers, Sequences, FiniteSets

CONSTANTS
    Candidates,     \* the candidate models of the request
    Refinements,    \* the refinement rounds, a sequence
    Worker,         \* Service.workerID
    Nothing,
    MaxFaults,      \* bound: failed saves of the registry
    MaxRuns         \* bound: calls of Run

VARIABLES
    mem, disk, up, now, faults, logs, reader, told, held, promised, atEnd, undone,
    running,   \* whether Run is in progress
    phase,     \* how far the present Run has come with each step
    records,   \* StepRecords of the present Run
    artifact,  \* the artifact files
    history,   \* lines of history.jsonl for each step
    meta,      \* meta.json: the steps it names an artifact of, and its StepRecords
    kept,      \* meta of the present Run, in memory
    runs,      \* calls of Run so far
    calls      \* steps whose model was called by the present Run

registry == <<mem, disk, up, now, faults, logs, reader, told, held, promised, atEnd, undone>>
files == <<artifact, history, meta>>
vars == <<registry, running, phase, records, files, kept, runs, calls>>

Steps == {"rough_idea", "comparative_matrix", "synthesis", "fresh_eyes_critique",
          "lock_readiness"} \cup Candidates \cup {Refinements[i] : i \in 1 .. Len(Refinements)}

R == INSTANCE JobRegistry WITH Jobs <- Steps, Holders <- {Worker}, Keys <- Steps,
        Hashes <- {"request"}, Readers <- {}, DefaultLimit <- 1, MaxLimit <- 1,
        MaxTime <- 0, MaxLog <- 0

\* BuildGraph.
Last == IF Refinements = <<>> THEN "fresh_eyes_critique" ELSE Refinements[Len(Refinements)]
Dependencies(s) ==
    CASE s = "rough_idea" -> {}
      [] s \in Candidates -> {"rough_idea"}
      [] s = "comparative_matrix" -> Candidates
      [] s = "synthesis" -> {"comparative_matrix"}
      [] s = "fresh_eyes_critique" -> {"synthesis"}
      [] s = "lock_readiness" -> {Last}
      [] OTHER -> LET i == CHOOSE n \in 1 .. Len(Refinements) : Refinements[n] = s
                  IN {IF i = 1 THEN "fresh_eyes_critique" ELSE Refinements[i - 1]}

\* What the constants are: the rounds come one after the other.
PlanningConstants == Refinements \in Seq(STRING)

Phases == {"todo", "ensured", "leased", "produced", "truncated", "written", "registered",
           "completed", "noted", "done", "failing", "failed"}
Status(s) == mem.jobs[s].status
Answered == faults' = faults
Goto(s, p) == phase' = [phase EXCEPT ![s] = p]
Same == UNCHANGED <<running, records, kept, runs, calls>>

-----------------------------------------------------------------------------
(* runStep.                                                                *)

\* As a bug would have it: a step that was started is enough for the next one.
ReadyEarly(s) == /\ running
                 /\ \A d \in Dependencies(s) : phase[d] # "todo"
                 /\ s \in Candidates \/ \A t \in Steps : phase[t] \notin {"failing", "failed"}

\* Steps are taken in the order of their dependencies; a failure stops all but the
\* candidates that run beside it.
Ready(s) == /\ running
            /\ \A d \in Dependencies(s) : phase[d] = "done"
            /\ s \in Candidates \/ \A t \in Steps : phase[t] \notin {"failing", "failed"}

\* ensureJob.
EnsureJob(s) ==
    /\ Ready(s) /\ phase[s] = "todo"
    /\ \/ Status(s) # "absent" /\ Goto(s, "ensured") /\ UNCHANGED registry
       \/ /\ R!CreateNew(s, s, "request")
          /\ Goto(s, IF Answered THEN "ensured" ELSE "failed")
    /\ Same /\ UNCHANGED files

\* As a bug would have it: the restored step is written to the history again.
RestoreNoted(s) ==
    /\ running /\ phase[s] = "ensured" /\ Status(s) = "succeeded"
    /\ Goto(s, "done")
    /\ kept' = kept \cup {s}
    /\ history' = [history EXCEPT ![s] = @ + 1]
    /\ UNCHANGED <<registry, running, records, artifact, meta, runs, calls>>

\* restoreCompletedStep: the artifact is read, and a record is made up if there is none.
\* The candidates share meta, behind metaMu.
Restore(s) ==
    /\ running /\ phase[s] = "ensured" /\ Status(s) = "succeeded"
    /\ IF artifact[s] = "whole"
       THEN /\ Goto(s, "done")
            /\ records' = [records EXCEPT ![s] = IF @ = "none" THEN "bare" ELSE @]
            /\ kept' = kept \cup {s}
       ELSE Goto(s, "failed") /\ UNCHANGED <<records, kept>>
    /\ UNCHANGED <<registry, running, files, runs, calls>>

\* As a bug would have it: nobody looks whether the job has succeeded.
LeaseStepHeld(s) ==
    /\ running /\ phase[s] = "ensured"
    /\ IF Status(s) = "succeeded" THEN Goto(s, "leased") /\ UNCHANGED registry
       ELSE /\ Status(s) \notin R!Terminal \cup {"canceling"}
            /\ R!Lease(s, Worker, 1) /\ Goto(s, IF Answered THEN "leased" ELSE "failed")
    /\ Same /\ UNCHANGED files

\* Registry.Lease; it refuses a job that has ended or is being cancelled.
LeaseStep(s) ==
    /\ running /\ phase[s] = "ensured" /\ Status(s) # "succeeded"
    /\ IF Status(s) \in R!Terminal \cup {"canceling"}
       THEN Goto(s, "failed") /\ UNCHANGED registry
       ELSE R!Lease(s, Worker, 1) /\ Goto(s, IF Answered THEN "leased" ELSE "failed")
    /\ Same /\ UNCHANGED files

\* LoadPrompt and RunPlanningStep; the rough idea needs neither.
Produce(s) ==
    /\ running /\ phase[s] = "leased"
    /\ IF s = "rough_idea"
       THEN Goto(s, "produced") /\ UNCHANGED calls
       ELSE /\ \E p \in {"produced", "failing"} : Goto(s, p)
            /\ calls' = calls \cup {s}
    /\ UNCHANGED <<registry, running, records, files, kept, runs>>

\* As a bug would have it: the error of the write is dropped.
WriteArtifactCarelessly(s) ==
    /\ running /\ phase[s] = "produced"
    /\ \E text \in {"part", "whole"} : artifact' = [artifact EXCEPT ![s] = text]
    /\ Goto(s, "written")
    /\ Same /\ UNCHANGED <<registry, history, meta>>

\* writeTextFile truncates the file before it writes it.
WriteArtifact(s) ==
    /\ running
    /\ \/ /\ phase[s] = "produced"
          /\ artifact' = [artifact EXCEPT ![s] = "part"]
          /\ \E p \in {"truncated", "failing"} : Goto(s, p)
       \/ /\ phase[s] = "truncated"
          /\ artifact' = [artifact EXCEPT ![s] = "whole"]
          /\ Goto(s, "written")
    /\ Same /\ UNCHANGED <<registry, history, meta>>

\* AddArtifact changes the job, AppendLog its log.
RegisterArtifact(s) ==
    /\ running /\ phase[s] = "written"
    /\ R!Update(s, mem.jobs[s], UNCHANGED <<told, held, promised>>)
    /\ Goto(s, IF Answered THEN "registered" ELSE "failing")
    /\ Same /\ UNCHANGED files

LogFails(s) ==
    /\ running /\ phase[s] = "registered"
    /\ Goto(s, "failing")
    /\ Same /\ UNCHANGED <<registry, files>>

\* Registry.Complete; its error ends the step without failing the job.
CompleteStep(s) ==
    /\ running /\ phase[s] = "registered"
    /\ IF Status(s) \in R!Terminal \ {"succeeded"}
       THEN Goto(s, "failed") /\ UNCHANGED registry
       ELSE R!End(s, "succeeded", Worker) /\ Goto(s, IF Answered THEN "completed" ELSE "failed")
    /\ Same /\ UNCHANGED files

\* The record, then a line of history.jsonl, then meta.json.
Note(s) ==
    /\ running /\ phase[s] = "completed"
    /\ records' = [records EXCEPT ![s] = "full"]
    /\ kept' = kept \cup {s}
    /\ \/ history' = [history EXCEPT ![s] = @ + 1] /\ Goto(s, "noted")
       \/ UNCHANGED history /\ Goto(s, "failed")
    /\ UNCHANGED <<registry, running, artifact, meta, runs, calls>>

WriteMeta(s) ==
    /\ running /\ phase[s] = "noted"
    /\ \/ meta' = [artifacts |-> kept, steps |-> [t \in Steps |-> "none"]] /\ Goto(s, "done")
       \/ UNCHANGED meta /\ Goto(s, "failed")
    /\ Same /\ UNCHANGED <<registry, artifact, history>>

\* failJob, whose own error is dropped.
FailJob(s) ==
    /\ running /\ phase[s] = "failing"
    /\ Goto(s, "failed")
    /\ IF Status(s) \in R!Terminal \ {"failed"}
       THEN UNCHANGED registry ELSE R!End(s, "failed", Worker)
    /\ Same /\ UNCHANGED files

-----------------------------------------------------------------------------
(* Run.                                                                    *)

Start ==
    /\ up /\ ~running /\ runs < MaxRuns
    /\ running' = TRUE
    /\ runs' = runs + 1
    /\ phase' = [s \in Steps |-> "todo"]
    /\ records' = meta.steps
    /\ kept' = meta.artifacts
    /\ calls' = {}
    /\ UNCHANGED <<registry, files>>

\* Run returns, or dies with the daemon; its variables are gone.
Over == /\ running' = FALSE
        /\ phase' = [s \in Steps |-> "todo"]
        /\ records' = [s \in Steps |-> "none"]
        /\ kept' = {} /\ calls' = {}
        /\ UNCHANGED runs

\* runCandidateSteps waits for all candidates.
Stop ==
    /\ running
    /\ \E s \in Steps : phase[s] = "failed"
    /\ \A s \in Steps : phase[s] \in {"todo", "done", "failed"}
    /\ \A c \in Candidates : phase[c] = "todo" => phase["rough_idea"] # "done"
    /\ Over
    /\ UNCHANGED <<registry, files>>

\* The quality report and the last meta.json, the only one with the records.
Finish ==
    /\ running
    /\ \A s \in Steps : phase[s] = "done"
    /\ Over
    /\ \/ meta' = [artifacts |-> kept, steps |-> records]
       \/ UNCHANGED meta
    /\ UNCHANGED <<registry, artifact, history>>

\* The rest of the daemon: somebody cancels a job, or the daemon exits and is started again.
CancelStep(s) == R!Cancel(s) /\ UNCHANGED <<running, phase, records, files, kept, runs, calls>>
Exit == R!Crash /\ Over /\ UNCHANGED files
Recover == /\ R!Restart
           /\ UNCHANGED <<running, phase, records, files, kept, runs, calls>>
Interrupt == /\ ~running
             /\ R!RecoverInterrupted({})
             /\ UNCHANGED <<running, phase, records, files, kept, runs, calls>>

Init == /\ R!Init
        /\ running = FALSE
        /\ phase = [s \in Steps |-> "todo"]
        /\ records = [s \in Steps |-> "none"]
        /\ artifact = [s \in Steps |-> "none"]
        /\ history = [s \in Steps |-> 0]
        /\ meta = [artifacts |-> {}, steps |-> records]
        /\ kept = {}
        /\ runs = 0
        /\ calls = {}

StepOf(s) == \/ EnsureJob(s) \/ Restore(s) \/ LeaseStep(s) \/ Produce(s) \/ WriteArtifact(s)
             \/ RegisterArtifact(s) \/ LogFails(s) \/ CompleteStep(s) \/ Note(s)
             \/ WriteMeta(s) \/ FailJob(s)
Next == \/ \E s \in Steps : StepOf(s) \/ CancelStep(s)
        \/ Start \/ Stop \/ Finish \/ Exit \/ Recover \/ Interrupt

Spec == Init /\ [][Next]_vars

-----------------------------------------------------------------------------
(* Properties.                                                             *)

PipelineTypeOK ==
    /\ R!RegistryTypeOK
    /\ running \in BOOLEAN
    /\ phase \in [Steps -> Phases]
    /\ {records, meta.steps} \subseteq [Steps -> {"none", "full", "bare"}]
    /\ artifact \in [Steps -> {"none", "part", "whole"}]
    /\ history \in [Steps -> Nat]
    /\ meta.artifacts \subseteq Steps /\ kept \subseteq Steps /\ calls \subseteq Steps
    /\ runs \in Nat

\* A job that the file calls succeeded has its whole artifact: Complete comes after
\* the write, whatever fails or dies in between.
CompletedHasArtifact ==
    \A s \in Steps : disk.jobs[s].status = "succeeded" => artifact[s] = "whole"

\* The file never has a job without the success of the jobs its step depends on, so that
\* a daemon that comes back never finds a step ahead of its inputs: every save writes all
\* jobs, the ones of earlier saves that failed included.
DependenciesDurable ==
    \A s \in Steps : disk.jobs[s].status # "absent" =>
        \A d \in Dependencies(s) : disk.jobs[d].status = "succeeded"

\* Resuming does not run a model again (TestServiceResumesFromCompletedJobs...): no model
\* is called for a step that has succeeded, and history.jsonl has one line per step.
NoModelTwice == \A s \in calls' \ calls : disk.jobs[s].status # "succeeded"
ResumesWithoutRepeating == [][NoModelTwice]_vars
HistoryOnce == \A s \in Steps : history[s] <= 1

\* meta.json names only artifacts that are whole.  A step whose success could not be saved
\* is restored from memory and named; when the daemon dies it is done again all the same.
MetaIsTrue == \A s \in meta.artifacts : artifact[s] = "whole" \/ s \in undone
=============================================================================
