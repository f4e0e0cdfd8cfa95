---------------------------- MODULE HardeningFlip ----------------------------
(***************************************************************************)
(* The flip from the implementation swarm to the hardening swarm           *)
(* (swarm/flip/flip.go).  BuildPlan decides from what the caller hands it; *)
(* the caller asks again while beads drain, agents finish them, the user   *)
(* resolves the rest, and the way back closes with time.                   *)
(***************************************************************************)
EXTENDS Integers, Sequences, FiniteSets, TLC

CONSTANTS Beads, Nothing, MaxTime, Grace, Window, MaxAsks

VARIABLES status,    \* each bead in flight, as the tracker has it
          choice,    \* the user's resolutions
          gate,      \* the hardening_ready gate and the override offered
          jobs,      \* tending jobs by id
          snapshot,  \* what the snapshot file holds, or Nothing
          plan,      \* the plan of the last BuildPlan
          begun, now, asks
vars == <<status, choice, gate, jobs, snapshot, plan, begun, now, asks>>

Ended == {"completed", "closed", "deferred"}
\* The way back stays open for a time, and a snapshot that was written is there.
FlipConstants == Window \in Nat /\ Nothing \notin [status: [Beads -> {"in_progress"} \cup Ended], at: Nat]
Active == {b \in Beads: status[b] = "in_progress"}
Chosen(kind) == {b \in Active: choice[b] = kind}
Unresolved == Chosen("none")

\* EvaluateHardeningGate: the gate, or an approved override that names its approval.
Satisfied == gate.ready \/ (gate.override = "approved")
GateFails == ~gate.ready /\ gate.override = "unnamed"

\* EvaluateDrain; a request that leaves the start out starts its grace anew.
Ends == (IF begun = Nothing THEN now ELSE begun) + Grace
\* As a bug would have it: when the grace is over, the flip goes ahead.
DrainImpatient == IF Unresolved = {} \/ now >= Ends THEN "complete" ELSE "in_progress"
Drain ==
  IF Unresolved = {} THEN "complete" ELSE IF now < Ends THEN "in_progress" ELSE "awaiting_resolution"


\* DefaultTendingSwitchPlan.
Pause == {"drift-check"}
Activate == [id \in {"review-round-driver", "convergence-watcher"} |->
               IF id = "review-round-driver" THEN 1 ELSE 2]
Retune == [id \in {"tend-swarm"} |-> 2]

\* As a bug would have it: a job that is there keeps its pause.
SwitchedPaused(current) ==
  [id \in DOMAIN current \cup DOMAIN Activate |->
     IF id \notin DOMAIN current THEN [paused |-> FALSE, cadence |-> Activate[id], mode |-> "hardening"]
     ELSE [paused |-> id \in Pause \/ current[id].paused,
           cadence |-> IF id \in DOMAIN Retune THEN Retune[id]
                       ELSE IF id \in DOMAIN Activate THEN Activate[id] ELSE current[id].cadence,
           mode |-> IF id \in DOMAIN Activate THEN "hardening" ELSE current[id].mode]]
\* SwitchTendingJobs: pauses what is there, then resumes or creates, then
\* retunes what is there; a target that is missing is only a warning.
Switched(current) ==
  [id \in DOMAIN current \cup DOMAIN Activate |->
     IF id \notin DOMAIN current THEN [paused |-> FALSE, cadence |-> Activate[id], mode |-> "hardening"]
     ELSE [paused |-> (id \in Pause \/ current[id].paused) /\ id \notin DOMAIN Activate,
           cadence |-> IF id \in DOMAIN Retune THEN Retune[id]
                       ELSE IF id \in DOMAIN Activate THEN Activate[id] ELSE current[id].cadence,
           mode |-> IF id \in DOMAIN Activate THEN "hardening" ELSE current[id].mode]]


Report(state) ==
  [state |-> state, carry |-> Chosen("carry"), defer |-> Chosen("defer"),
   ended |-> Beads \ Active, left |-> Unresolved, ends |-> Ends, until |-> Nothing]

\* BuildPlan: gate, drain, snapshot file, tending switch, in that order; only
\* a completed plan writes and switches.
BuildPlan ==
  /\ asks < MaxAsks /\ asks' = asks + 1
  /\ \/ GateFails /\ UNCHANGED <<jobs, snapshot, plan>>
     \/ /\ ~GateFails /\ ~Satisfied
        /\ plan' = [Report("refused") EXCEPT !.carry = {}, !.defer = {}, !.ended = {}, !.left = {}]
        /\ UNCHANGED <<jobs, snapshot>>
     \/ /\ Satisfied /\ ~GateFails /\ Drain # "complete"
        /\ plan' = Report(IF Drain = "in_progress" THEN "draining" ELSE "awaiting_drain_resolution")
        /\ UNCHANGED <<jobs, snapshot>>
     \/ /\ Satisfied /\ ~GateFails /\ Drain = "complete"
        /\ snapshot' = [status |-> status, at |-> now]
        /\ jobs' = Switched(jobs)
        /\ plan' = [Report("completed") EXCEPT !.until = now + Window]
  /\ UNCHANGED <<status, choice, gate, begun, now>>

\* EvaluateReturn: free of approval while the window is open.
Returns == plan.until # Nothing /\ now <= plan.until

Finish == /\ \E b \in Active, s \in Ended: status' = [status EXCEPT ![b] = s]
          /\ UNCHANGED <<choice, gate, jobs, snapshot, plan, begun, now, asks>>
Resolve == /\ \E b \in Beads, c \in {"carry", "defer"}: choice' = [choice EXCEPT ![b] = c]
           /\ UNCHANGED <<status, gate, jobs, snapshot, plan, begun, now, asks>>
Offer == /\ \E o \in {"approved", "unnamed"}: gate' = [gate EXCEPT !.override = o]
         /\ UNCHANGED <<status, choice, jobs, snapshot, plan, begun, now, asks>>
Tick == /\ now < MaxTime /\ now' = now + 1
        /\ UNCHANGED <<status, choice, gate, jobs, snapshot, plan, begun, asks>>

Job(p, c) == [paused |-> p, cadence |-> c, mode |-> "implementation"]
Init == /\ status = [b \in Beads |-> "in_progress"] /\ choice = [b \in Beads |-> "none"]
        /\ gate \in [ready: BOOLEAN, override: {"none"}]
        /\ jobs \in {"drift-check" :> Job(FALSE, 5) @@ "tend-swarm" :> Job(FALSE, 1),
                     "tend-swarm" :> Job(TRUE, 1) @@ "convergence-watcher" :> Job(TRUE, 4)}
        /\ snapshot = Nothing /\ now = 0 /\ asks = 0 /\ begun \in {0, Nothing}
        /\ plan = [state |-> "none", carry |-> {}, defer |-> {}, ended |-> {}, left |-> {}, ends |-> 0, until |-> Nothing]
Next == BuildPlan \/ Finish \/ Resolve \/ Offer \/ Tick
Spec == Init /\ [][Next]_vars

----------------------------------------------------------------------------
FlipTypeOK ==
  /\ plan.state \in {"none", "refused", "draining", "awaiting_drain_resolution", "completed"}
  /\ now \in 0..MaxTime /\ asks \in 0..MaxAsks

\* A completed flip lost no bead: each one had ended, was carried over or was
\* deferred, and nothing was carried that an agent had finished (EvaluateDrain).
NoBeadLost ==
  plan.state = "completed" =>
    /\ plan.left = {} /\ plan.ended \cup plan.carry \cup plan.defer = Beads
    /\ plan.ended \cap (plan.carry \cup plan.defer) = {} /\ plan.carry \cap plan.defer = {}
    /\ snapshot # Nothing /\ \A b \in plan.carry: snapshot.status[b] = "in_progress"

\* The hardening jobs run once a flip has completed, and asking again changes
\* none of them (SwitchTendingJobs under the default plan).
SwitchSettles ==
  plan.state = "completed" =>
    /\ Switched(jobs) = jobs
    /\ \A id \in DOMAIN Activate: id \in DOMAIN jobs /\ ~jobs[id].paused /\ jobs[id].cadence = Activate[id]

\* The way back closes once: a return that needs approval does not become free
\* again without a new plan (EvaluateReturn).
ReturnCloses == plan.state = "completed" /\ ~Returns /\ plan' = plan => ~Returns'
=============================================================================
