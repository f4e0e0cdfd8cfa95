--------------------------- MODULE ActionExecutor ---------------------------
(***************************************************************************)
(* The executor of action plans (apps/daemon/internal/agent/executor.go)   *)
(* with its idempotency file and the approval gate in front of it          *)
(* (apps/daemon/internal/approvals/agent_gate.go).                         *)
(*                                                                         *)
(* A run is one call of Execute.  It takes the actions of its plan in      *)
(* order: look the idempotency key up, check and dry-run, ask for          *)
(* approval, execute, verify, record.  Runs interleave between these       *)
(* steps; nothing is held from the lookup to the record.  A plan may be    *)
(* retried by a later run, and different plans may agree on a key.  What   *)
(* the handlers do to the world outside is counted per key.                *)
(***************************************************************************)
EXTENDS Integers, Sequences

CONSTANTS
    Runs,
    Keys,         \* idempotency keys
    Actions,      \* Actions[r]: the keys of the plan of run r, in its order
    Gated,        \* the keys of actions that require approval
    MaxFaults     \* bound on the number of failed appends and crashes

\* ValidatePlan refuses an empty plan and one that uses a key twice.
ASSUME ActionExecutorAssumption ==
    /\ Actions \in [Runs -> Seq(Keys)]
    /\ \A r \in Runs : \A i, j \in DOMAIN Actions[r] : Actions[r][i] = Actions[r][j] => i = j
    /\ Gated \subseteq Keys /\ MaxFaults \in Nat

VARIABLES
    run,       \* run[r]: the state of Execute
    memory,    \* FileIdempotencyStore.results
    log,       \* log[k]: the last line of key k in the file
    torn,      \* a line of the file is malformed
    up,        \* the process runs
    approval,  \* approval[k]: the open approval for the action with key k
    effects,   \* effects[k]: how often a handler has acted for key k
    granted,   \* history: the keys an operator has approved
    overlap,   \* history: keys that two runs have carried out at a time
    lost,      \* history: keys carried out whose record was not made
    faults     \* failed appends and crashes so far

store   == <<memory, log, torn>>
history == <<granted, overlap, lost>>
vars    == <<run, store, up, approval, effects, history, faults>>

-----------------------------------------------------------------------------
\* Data

Outcomes == {"executed", "failed"}            \* what is recorded of a key
Entry    == Outcomes \cup {"none"}
Results  == Outcomes \cup {"replay", "skipped"}

\* The steps of one action, after the lookup has found nothing
Steps == {"prepare", "ask", "execute", "verify", "record"}

\* settled: history, the keys reported as done before the run began
Run == [phase : {"new", "loop", "over", "cut"} \cup Steps, results : Seq(Results),
        prior : BOOLEAN, outcome : Outcomes, settled : SUBSET Keys]
NewRun == [phase |-> "new", results |-> <<>>, prior |-> FALSE, outcome |-> "failed",
           settled |-> {}]
Empty  == [k \in Keys |-> "none"]

Position(r) == Len(run[r].results) + 1
Current(r)  == Actions[r][Position(r)]
More(r)     == Position(r) \in DOMAIN Actions[r]
Underway(k) == {r \in Runs : run[r].phase \in Steps /\ Current(r) = k}

\* The keys some run has reported as carried out
Settled == {k \in Keys : \E r \in Runs : \E i \in DOMAIN run[r].results :
                            run[r].results[i] \in {"executed", "replay"} /\ Actions[r][i] = k}

Active(r, phase) == up /\ run[r].phase = phase

Goto(r, phase) == run' = [run EXCEPT ![r].phase = phase]

Report(r, result, prior) ==
    run' = [run EXCEPT ![r].phase = "loop", ![r].results = Append(run[r].results, result),
                       ![r].prior = prior]

Refuse(r) == Report(r, "failed", TRUE)

-----------------------------------------------------------------------------
\* Execute

Start(r) ==
    /\ Active(r, "new")
    /\ run' = [run EXCEPT ![r].phase = "loop", ![r].settled = Settled]
    /\ UNCHANGED <<store, up, approval, effects, history, faults>>

\* Mutant: the loop over the rest of the plan is one too long.
SkipOneMore(r) ==
    /\ Active(r, "loop") /\ Len(run[r].results) <= Len(Actions[r]) /\ run[r].prior
    /\ Report(r, "skipped", TRUE)
    /\ UNCHANGED <<store, up, approval, effects, history, faults>>

Skip(r) ==
    /\ Active(r, "loop") /\ More(r) /\ run[r].prior
    /\ Report(r, "skipped", TRUE)
    /\ UNCHANGED <<store, up, approval, effects, history, faults>>

\* A recorded result is reported again, whatever it was: a failure does not
\* stop the actions behind it a second time.
Replay(r) ==
    /\ Active(r, "loop") /\ More(r) /\ ~run[r].prior /\ memory[Current(r)] # "none"
    /\ Report(r, "replay", FALSE)
    /\ UNCHANGED <<store, up, approval, effects, history, faults>>

Miss(r) ==
    /\ Active(r, "loop") /\ More(r) /\ ~run[r].prior /\ memory[Current(r)] = "none"
    /\ Goto(r, "prepare")
    /\ overlap' = IF Underway(Current(r)) = {} THEN overlap ELSE overlap \cup {Current(r)}
    /\ UNCHANGED <<store, up, approval, effects, granted, lost, faults>>

\* The first audit line, the capabilities, the handler and its dry run
Prepare(r) ==
    /\ Active(r, "prepare")
    /\ \/ Goto(r, IF Current(r) \in Gated THEN "ask" ELSE "execute")
       \/ Refuse(r)
    /\ UNCHANGED <<store, up, approval, effects, history, faults>>

\* Mutant: a request that is pending is taken for a consent.
AskOnce(r) ==
    /\ Active(r, "ask")
    /\ Goto(r, "execute")
    /\ approval' = [approval EXCEPT ![Current(r)] = IF @ = "none" THEN "pending" ELSE @]
    /\ UNCHANGED <<store, up, effects, history, faults>>

\* requestApproval: Queue.Request finds the open approval of the key or makes
\* one.  The executor does not use the approval up.
Ask(r) ==
    /\ Active(r, "ask")
    /\ \/ /\ approval[Current(r)] = "approved"
          /\ Goto(r, "execute") /\ UNCHANGED approval
       \/ /\ approval[Current(r)] # "approved"
          /\ Refuse(r) /\ approval' = [approval EXCEPT ![Current(r)] = "pending"]
       \/ Refuse(r) /\ UNCHANGED approval                   \* the queue fails
    /\ UNCHANGED <<store, up, effects, history, faults>>

\* The handler acts or not, and says it did or not.
Execute(r) ==
    /\ Active(r, "execute")
    /\ \E said \in BOOLEAN, acted \in {0, 1} :
          /\ run' = [run EXCEPT ![r].phase = IF said THEN "verify" ELSE "record",
                                ![r].outcome = "failed"]
          /\ effects' = [effects EXCEPT ![Current(r)] = @ + acted]
    /\ UNCHANGED <<store, up, approval, history, faults>>

\* VerifyPostconditions looks at the world, not at what Execute said.
Verify(r) ==
    /\ Active(r, "verify")
    /\ \E outcome \in Outcomes :
          /\ outcome = "executed" => effects[Current(r)] > 0
          /\ run' = [run EXCEPT ![r].phase = "record", ![r].outcome = outcome]
    /\ UNCHANGED <<store, up, approval, effects, history, faults>>

\* Mutants: the map is updated before the line is written; a record that fails
\* leaves the result as it was; a failure is not recorded.
RecordMemoryFirst(r) ==
    /\ Active(r, "record") /\ faults < MaxFaults
    /\ faults' = faults + 1
    /\ memory' = [memory EXCEPT ![Current(r)] = run[r].outcome]
    /\ lost' = lost \cup {Current(r)}
    /\ Refuse(r)
    /\ UNCHANGED <<log, torn, up, approval, effects, granted, overlap>>

RecordFailureGoesOn(r) ==
    /\ Active(r, "record") /\ faults < MaxFaults
    /\ faults' = faults + 1
    /\ lost' = lost \cup {Current(r)}
    /\ Report(r, run[r].outcome, FALSE)
    /\ UNCHANGED <<store, up, approval, effects, granted, overlap>>

RecordSuccessOnly(r) ==
    /\ Active(r, "record")
    /\ Report(r, run[r].outcome, run[r].outcome = "failed")
    /\ IF run[r].outcome = "failed" THEN UNCHANGED <<memory, log>>
       ELSE /\ log' = [log EXCEPT ![Current(r)] = "executed"]
            /\ memory' = [memory EXCEPT ![Current(r)] = "executed"]
    /\ UNCHANGED <<torn, up, approval, effects, history, faults>>

\* RecordActionResult: the line is written and synced, then the map is updated.
Record(r) ==
    LET k == Current(r) IN
    /\ Active(r, "record")
    /\ log' = [log EXCEPT ![k] = run[r].outcome]
    /\ memory' = [memory EXCEPT ![k] = run[r].outcome]
    /\ Report(r, run[r].outcome, run[r].outcome = "failed")
    /\ UNCHANGED <<torn, up, approval, effects, history, faults>>

\* The append fails before the line is in the file, behind it or in its middle.
\* An action that was carried out is reported as failed.
RecordFails(r) ==
    LET k == Current(r) IN
    /\ Active(r, "record") /\ faults < MaxFaults
    /\ faults' = faults + 1
    /\ \/ log' \in {log, [log EXCEPT ![k] = run[r].outcome]} /\ UNCHANGED torn
       \/ torn' = TRUE /\ UNCHANGED log
    /\ lost' = lost \cup {k}
    /\ Refuse(r)
    /\ UNCHANGED <<memory, up, approval, effects, granted, overlap>>

Finish(r) ==
    /\ Active(r, "loop") /\ ~More(r)
    /\ Goto(r, "over")
    /\ UNCHANGED <<store, up, approval, effects, history, faults>>

-----------------------------------------------------------------------------
\* The operator and the process

\* Approve
Approve(k) ==
    /\ approval[k] = "pending"
    /\ approval' = [approval EXCEPT ![k] = "approved"]
    /\ granted' = granted \cup {k}
    /\ UNCHANGED <<run, store, up, effects, overlap, lost, faults>>

\* Deny and Revoke of a pending request, and the expiry of one: the next
\* request for the key makes a new approval.
CloseApproval(k) ==
    /\ approval[k] # "none"
    /\ approval' = [approval EXCEPT ![k] = "none"]
    /\ UNCHANGED <<run, store, up, effects, history, faults>>

\* Runs end where they are; of what they did nothing is known but the log.
Crash ==
    /\ up /\ faults < MaxFaults
    /\ faults' = faults + 1
    /\ up' = FALSE /\ memory' = Empty
    /\ run' = [r \in Runs |-> IF run[r].phase \in Steps \cup {"loop"}
                              THEN [run[r] EXCEPT !.phase = "cut"] ELSE run[r]]
    /\ lost' = lost \cup {k \in Keys : \E r \in Underway(k) : run[r].phase \in {"verify", "record"}}
    /\ UNCHANGED <<log, torn, approval, effects, granted, overlap>>

\* Mutant: the results are kept in memory only.
BootEmpty ==
    /\ ~up /\ up' = TRUE
    /\ UNCHANGED <<run, store, approval, effects, history, faults>>

\* NewFileIdempotencyStore: a line it cannot read keeps the executor down.
Boot ==
    /\ ~up /\ ~torn
    /\ up' = TRUE /\ memory' = log
    /\ UNCHANGED <<run, log, torn, approval, effects, history, faults>>

-----------------------------------------------------------------------------
Init ==
    /\ run = [r \in Runs |-> NewRun]
    /\ memory = Empty /\ log = Empty /\ torn = FALSE /\ up = TRUE
    /\ approval = [k \in Keys |-> "none"] /\ effects = [k \in Keys |-> 0]
    /\ granted = {} /\ overlap = {} /\ lost = {} /\ faults = 0

Next ==
    \/ \E r \in Runs : \/ Start(r) \/ Skip(r) \/ Replay(r) \/ Miss(r) \/ Prepare(r) \/ Ask(r)
                       \/ Execute(r) \/ Verify(r) \/ Record(r) \/ RecordFails(r) \/ Finish(r)
    \/ \E k \in Keys : Approve(k) \/ CloseApproval(k)
    \/ Crash \/ Boot

Spec == Init /\ [][Next]_vars

-----------------------------------------------------------------------------
\* Properties

\* Types of the executor, its store and the approvals.
TypeOK ==
    /\ run \in [Runs -> Run]
    /\ \A r \in Runs : /\ Len(run[r].results) <= Len(Actions[r])
                       /\ run[r].phase \in Steps => More(r)
    /\ memory \in [Keys -> Entry] /\ log \in [Keys -> Entry]
    /\ torn \in BOOLEAN /\ up \in BOOLEAN
    /\ approval \in [Keys -> {"none", "pending", "approved"}]
    /\ effects \in [Keys -> Nat]
    /\ granted \subseteq Keys /\ overlap \subseteq Keys /\ lost \subseteq Keys
    /\ faults \in Nat

\* An action acts once for its key, unless two runs carried it out at a time
\* or its record was lost with a crash or a failed append: retries of a plan,
\* also of a failed one, do not repeat it.
OneEffect == \A k \in Keys \ (overlap \cup lost) : effects[k] <= 1

\* What a run reports as done or as replayed is in the file.
\* (RecordActionResult writes before it updates the map)
ReportedIsDurable == \A k \in Settled : log[k] # "none"

\* A run never carries out an action that was reported as done before the run
\* began, whatever crashed in between. (lookup, record and loadFromDisk)
NeverRepeated == \A r \in Runs : run[r].phase \in Steps => Current(r) \notin run[r].settled

\* Behind an action that failed in this run nothing is carried out.
\* (priorFailure)
StopsAfterFailure ==
    \A r \in Runs : LET res == run[r].results IN
        /\ \A i, j \in DOMAIN res : i < j /\ res[i] = "failed" => res[j] = "skipped"
        /\ run[r].phase \in Steps => \A i \in DOMAIN res : res[i] # "failed"

\* No action that requires approval acts before an operator has approved it.
EffectNeedsApproval == \A k \in Gated : effects[k] > 0 => k \in granted
=============================================================================
