----------------------------- MODULE Checkpoints -----------------------------
(***************************************************************************)
(* Onboarding checkpoints (onboarding/checkpoints/checkpoints.go): the     *)
(* wizard's steps report their status; each report is a read of the stored *)
(* checkpoint, a new one computed from it, and a transaction that saves    *)
(* both the checkpoint and the transition.  Nothing is locked between the  *)
(* read and the save.                                                      *)
(***************************************************************************)
EXTENDS Integers, Sequences, SequencesExt, FiniteSets

CONSTANTS Steps, Callers, Nothing, MaxReports, MaxTime, MaxFaults

VARIABLES items,    \* stored checkpoints, by step
          history,  \* saved transitions, in order
          call,     \* each caller's request and what it read
          audited, now, faults
vars == <<items, history, call, audited, now, faults>>

Statuses == {"pending", "running", "succeeded", "failed", "skipped"}
Terminal == {"succeeded", "failed", "skipped"}
Stored == DOMAIN items

\* As a bug would have it: running again leaves the completion in place.
CompletionKept(req, old, found) ==
  IF req.status \in Terminal THEN req.at ELSE IF found THEN old.completed ELSE Nothing
\* A completion is stamped every time and taken back by running.
Completion(req, old, found) ==
  IF req.status \in Terminal THEN req.at
  ELSE IF req.status = "running" \/ ~found THEN Nothing ELSE old.completed

\* checkpointFromTransition: a new attempt is counted when the step starts to
\* run again, and a start is stamped once; texts and evidence, not told apart
\* here, are kept from before.
NextCheckpoint(req, old, found) ==
  LET started == IF found THEN old.started ELSE Nothing
      begins == started = Nothing /\ (req.status = "running" \/ req.status \in Terminal)
  IN [status |-> req.status,
      attempt |-> IF ~found THEN 1
                  ELSE IF req.status = "running" /\ old.status # "running" THEN old.attempt + 1
                  ELSE old.attempt,
      started |-> IF begins THEN req.at ELSE started,
      completed |-> Completion(req, old, found),
      updated |-> req.at]

\* normalizeTransition and Get.
Begin(c) ==
  /\ call[c].pc = "idle" /\ Len(history) + Cardinality({d \in Callers: call[d].pc # "idle"}) < MaxReports
  /\ \E s \in Steps, st \in Statuses:
       call' = [call EXCEPT ![c] =
                  [pc |-> "save", step |-> s,
                   req |-> [status |-> st, at |-> now],
                   old |-> IF s \in Stored THEN items[s] ELSE Nothing]]
  /\ UNCHANGED <<items, history, audited, now, faults>>

\* As a bug would have it: the transition is written, the checkpoint is not.
SaveHalf(c) ==
  /\ call[c].pc = "save"
  /\ history' = Append(history, [step |-> call[c].step, to |-> call[c].req.status])
  /\ call' = [call EXCEPT ![c].pc = "audit"]
  /\ UNCHANGED <<items, audited, now, faults>>
\* Store.Save: one transaction for the checkpoint and the transition.
Save(c) ==
  /\ call[c].pc = "save"
  /\ LET found == call[c].old # Nothing
         next == NextCheckpoint(call[c].req, call[c].old, found)
     IN \/ /\ items' = [s \in Stored \cup {call[c].step} |-> IF s = call[c].step THEN next ELSE items[s]]
           /\ history' = Append(history, [step |-> call[c].step,
                                          to |-> next.status])
           /\ call' = [call EXCEPT ![c].pc = "audit"] /\ UNCHANGED faults
        \/ /\ faults < MaxFaults /\ faults' = faults + 1
           /\ call' = [call EXCEPT ![c].pc = "idle"] /\ UNCHANGED <<items, history>>
  /\ UNCHANGED <<audited, now>>


\* The audit comes after the save: its failure is reported for a transition
\* that is stored all the same.
Audit(c) ==
  /\ call[c].pc = "audit"
  /\ call' = [call EXCEPT ![c].pc = "idle"]
  /\ \/ audited' = audited + 1 /\ UNCHANGED faults
     \/ faults < MaxFaults /\ faults' = faults + 1 /\ UNCHANGED audited
  /\ UNCHANGED <<items, history, now>>

Tick == now < MaxTime /\ now' = now + 1 /\ UNCHANGED <<items, history, call, audited, faults>>

Init == /\ items = <<>> /\ history = <<>> /\ audited = 0 /\ now = 0 /\ faults = 0
        /\ call = [c \in Callers |-> [pc |-> "idle", step |-> Nothing, req |-> Nothing, old |-> Nothing]]
Next == Tick \/ \E c \in Callers: Begin(c) \/ Save(c) \/ Audit(c)
Spec == Init /\ [][Next]_vars

----------------------------------------------------------------------------
CheckpointsTypeOK ==
  /\ Stored \subseteq Steps
  /\ \A s \in Stored: /\ items[s].status \in Statuses /\ items[s].attempt \in 1..MaxReports
  /\ audited <= Len(history)

\* What is stored of a step is what its last transition says, whichever
\* callers overtook each other and whatever save failed.
CheckpointIsLastTransition ==
  \A s \in Steps:
    LET mine == SelectSeq(history, LAMBDA h: h.step = s)
    IN  IF mine = <<>> THEN s \notin Stored
        ELSE s \in Stored /\ items[s].status = Last(mine).to

\* The stamps fit the status: a step that ended has both, a running one has
\* no completion.
StampsFitStatus ==
  \A s \in Stored:
    /\ items[s].status \in Terminal => items[s].completed # Nothing /\ items[s].started # Nothing
    /\ items[s].status = "running" => items[s].started # Nothing /\ items[s].completed = Nothing
=============================================================================
