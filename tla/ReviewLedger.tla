---------------------------- MODULE ReviewLedger ----------------------------
(***************************************************************************)
(* The ledger of review findings (review/review.go): rounds are ingested,  *)
(* findings already known by their fingerprint become duplicates, the      *)
(* others are triaged, decided and closed; the dashboard reads the ledger  *)
(* through the convergence detector.                                       *)
(***************************************************************************)
EXTENDS Integers, Sequences, SequencesExt, FiniteSets

CONSTANTS Prints, Nothing, MaxRounds, MaxTransitions

C == INSTANCE Convergence

VARIABLES findings,  \* stored findings, in order
          rounds,    \* ingested artifacts: their id, mode and findings
          events     \* transitions made so far
vars == <<findings, rounds, events>>

\* RoundCatalog, the rounds told apart by what may start them; the first mode
\* is the default.
Catalog == <<[id |-> "round-0", modes |-> {"deterministic_tool"}],
             [id |-> "round-3", modes |-> {"subscription_cli", "delegated_agent"}],
             [id |-> "round-9", modes |-> {"deterministic_tool"}]>>

\* ArtifactFromUBS names the round of its scan; NewRoundArtifact refuses a mode
\* the round does not allow.
ModeAllowed(spec, mode) == mode \in spec.modes

Dispositions == {"fix_now", "new_bead", "false_positive", "needs_human"}
Decided == Dispositions

\* dispositionForStatus, when the request names none.
Disposition(to, asked) == IF asked # Nothing THEN asked ELSE IF to \in Decided THEN to ELSE Nothing

\* As a bug would have it: a finding may close from wherever it is.
ValidTransitionLoosely(from, to, disposition, bead, reason) ==
  \/ from = "new" /\ to = "triaged"
  \/ from = "triaged" /\ to \in Decided /\ (to = "new_bead" => bead)
  \/ from # "closed" /\ to = "closed"
\* validateTransition; only fix_now is held against its disposition.
ValidTransition(from, to, disposition, bead, reason) ==
  \/ from = "new" /\ to = "triaged"
  \/ /\ from = "triaged" /\ to \in Decided
     /\ to = "fix_now" => disposition \in {Nothing, "fix_now"}
     /\ to = "new_bead" => bead
     /\ to = "false_positive" => reason
  \/ from \in Decided /\ to = "closed"


Index(stored, print) == CHOOSE i \in DOMAIN stored: stored[i].print = print
Prints_(stored) == {stored[i].print: i \in DOMAIN stored}

\* As a bug would have it: the index is that of the ledger before the round.
StoreStale(acc, f) ==
  IF f.print \in Prints_(findings)
  THEN <<acc[1], Append(acc[2], [print |-> f.print, duplicate |-> TRUE, severity |-> f.severity])>>
  ELSE <<Append(acc[1], f), Append(acc[2], [print |-> f.print, duplicate |-> FALSE, severity |-> f.severity])>>
\* One step of IngestRound's loop: acc is <<stored, emitted>>.
Store(acc, f) ==
  IF f.print \in Prints_(acc[1])
  THEN LET i == Index(acc[1], f.print)
       IN  <<[acc[1] EXCEPT ![i].sources = @ \cup f.sources],
             Append(acc[2], [print |-> f.print, duplicate |-> TRUE, severity |-> f.severity])>>
  ELSE <<Append(acc[1], f), Append(acc[2], [print |-> f.print, duplicate |-> FALSE, severity |-> f.severity])>>


NewFinding(print, severity, source) ==
  [print |-> print, severity |-> severity, status |-> "new", disposition |-> Nothing,
   bead |-> FALSE, sources |-> {source}, path |-> <<"new">>]

\* IngestRound, for an artifact of this project.
IngestRound ==
  /\ Len(rounds) < MaxRounds
  /\ \E spec \in ToSet(Catalog), mode \in {"deterministic_tool", "delegated_agent"}, source \in {"ubs", "agent"},
        emitted \in UNION {[1..n -> Prints \X {"high", "low"}]: n \in 0..2}:
       /\ ModeAllowed(spec, mode)
       /\ LET result == FoldLeft(Store, <<findings, <<>>>>,
                                 [i \in DOMAIN emitted |-> NewFinding(emitted[i][1], emitted[i][2], source)])
          IN /\ findings' = result[1]
             /\ rounds' = Append(rounds, [id |-> spec.id, findings |-> result[2]])
  /\ UNCHANGED events

\* Transition.
Transition ==
  /\ events < MaxTransitions /\ events' = events + 1
  /\ \E i \in DOMAIN findings, to \in {"triaged", "closed"} \cup Decided,
        asked \in {Nothing, "fix_now", "false_positive"}, bead, reason \in BOOLEAN:
       LET f == findings[i]
           disposition == Disposition(to, asked)
       IN /\ ValidTransition(f.status, to, disposition, bead, reason)
          /\ findings' = [findings EXCEPT
               ![i] = [f EXCEPT !.status = to, !.bead = @ \/ bead, !.path = Append(@, to),
                                !.disposition = IF disposition = Nothing THEN @ ELSE disposition]]
  /\ UNCHANGED rounds

\* convergenceResolution of a stored finding, and of a duplicate.
Resolution(f) ==
  CASE f.status = "closed" ->
         (CASE f.disposition = "fix_now" -> "fixed" [] f.disposition = "new_bead" -> "new_bead"
            [] f.disposition = "false_positive" -> "false_positive"
            [] f.disposition = "needs_human" -> "accepted_risk" [] OTHER -> "open")
    [] f.status \in {"new_bead", "false_positive"} -> f.status
    [] OTHER -> "open"


\* Dashboard: rounds see the current state of what they found first; what was
\* a duplicate when it came in is resolved, whatever became of the original.
Seen(emitted) ==
  LET f == findings[Index(findings, emitted.print)]
  IN  [severity |-> IF emitted.duplicate THEN emitted.severity ELSE f.severity,
       resolution |-> IF emitted.duplicate THEN "duplicate" ELSE Resolution(f),
       duplicate |-> emitted.duplicate, bead |-> ~emitted.duplicate /\ f.bead]
Rounds == [i \in DOMAIN rounds |->
             [findings |-> [j \in DOMAIN rounds[i].findings |-> Seen(rounds[i].findings[j])], cost |-> 0, minutes |-> 0]]
\* normalizeRounds refuses two rounds of one id.
Readable == \A i, j \in DOMAIN rounds: rounds[i].id = rounds[j].id => i = j
Everything == {"tests_pass", "health_pass", "git_synced", "beads_synced"}

Init == findings = <<>> /\ rounds = <<>> /\ events = 0
Next == IngestRound \/ Transition
Spec == Init /\ [][Next]_vars

----------------------------------------------------------------------------
LedgerTypeOK ==
  \A i \in DOMAIN findings: /\ findings[i].print \in Prints /\ findings[i].sources # {}
                            /\ findings[i].status \in {"new", "triaged", "closed"} \cup Decided

\* One defect is one finding, however many rounds and tools report it, and
\* each of them is remembered as a source (IngestRound).
OneFindingPerDefect ==
  /\ \A i, j \in DOMAIN findings: findings[i].print = findings[j].print => i = j
  /\ \A r \in DOMAIN rounds: \A i \in DOMAIN rounds[r].findings: rounds[r].findings[i].print \in Prints_(findings)

\* No finding closes without having been triaged and decided, and only a bead
\* decision with a bead counts as tracked (validateTransition).
ClosedWasDecided ==
  \A i \in DOMAIN findings:
    /\ findings[i].status = "closed" =>
         Len(findings[i].path) = 4 /\ findings[i].path[2] = "triaged" /\ findings[i].path[3] \in Decided
    /\ "new_bead" \in ToSet(findings[i].path) => findings[i].bead

\* The dashboard lets a project land only when each severe finding first seen
\* in the last round was closed, or turned into a bead, or rejected.
LandingIsDecided ==
  Readable /\ rounds # <<>> /\ C!MayLand(Rounds, Everything) =>
    \A j \in DOMAIN Last(rounds).findings:
      LET e == Last(rounds).findings[j]
          f == findings[Index(findings, e.print)]
      IN  ~e.duplicate /\ f.severity = "high" => f.status \in {"closed", "new_bead", "false_positive"}
=============================================================================
