------------------------ MODULE ActionExecutorProofs ------------------------
(***************************************************************************)
(* Proofs about ActionExecutor, for every set of runs, plans and faults.   *)
(***************************************************************************)
EXTENDS ActionExecutor, TLAPS

\* A result is appended at the position of the current action.
LEMMA ReportType ==
    ASSUME TypeOK, NEW r \in Runs, More(r), NEW x \in Results, NEW b \in BOOLEAN, Report(r, x, b)
    PROVE  /\ run' \in [Runs -> Run]
           /\ \A s \in Runs : Len(run[s].results)' <= Len(Actions[s])
           /\ \A s \in Runs : (run[s].phase \in Steps => More(s))'
<1>1. run[r].results \in Seq(Results) /\ run \in [Runs -> Run]
  BY DEF TypeOK, Run
<1>2. Append(run[r].results, x) \in Seq(Results)
  BY <1>1
<1>3. run' = [run EXCEPT ![r] = [run[r] EXCEPT !.phase = "loop", !.prior = b,
                                                !.results = Append(run[r].results, x)]]
  BY DEF Report, TypeOK, Run
<1>4. [run[r] EXCEPT !.phase = "loop", !.prior = b, !.results = Append(run[r].results, x)] \in Run
  BY <1>1, <1>2 DEF Run
<1>5. run' \in [Runs -> Run]
  BY <1>1, <1>3, <1>4
<1>6. ASSUME NEW s \in Runs PROVE Len(run[s].results)' <= Len(Actions[s])
  <2>1. CASE s = r
    <3>1. run'[r].results = Append(run[r].results, x)
      BY <1>1, <1>3 DEF Run
    <3>2. Len(run[r].results) + 1 <= Len(Actions[r])
      BY <1>1, ActionExecutorAssumption DEF More, Position
    <3> QED
      BY <2>1, <3>1, <3>2, <1>1
  <2>2. CASE s # r
    BY <2>2, <1>3 DEF TypeOK
  <2> QED
    BY <2>1, <2>2
<1>7. ASSUME NEW s \in Runs PROVE (run[s].phase \in Steps => More(s))'
  <2>1. CASE s = r
    BY <2>1, <1>1, <1>3 DEF Run, Steps
  <2>2. CASE s # r
    BY <2>2, <1>3 DEF TypeOK, More, Position
  <2> QED
    BY <2>1, <2>2
<1> QED
  BY <1>5, <1>6, <1>7

\* A run that only moves on keeps its results.
LEMMA MoveType ==
    ASSUME TypeOK, NEW r \in Runs, NEW rec \in Run, run' = [run EXCEPT ![r] = rec],
           rec.results = run[r].results, rec.phase \in Steps => More(r)
    PROVE  /\ run' \in [Runs -> Run]
           /\ \A s \in Runs : Len(run[s].results)' <= Len(Actions[s])
           /\ \A s \in Runs : (run[s].phase \in Steps => More(s))'
<1>1. run' \in [Runs -> Run]
  BY DEF TypeOK
<1>2. \A s \in Runs : run'[s].results = run[s].results
  BY DEF TypeOK
<1>3. \A s \in Runs : s # r => run'[s].phase = run[s].phase
  BY DEF TypeOK
<1>4. run'[r].phase = rec.phase
  BY DEF TypeOK
<1> QED
  BY <1>1, <1>2, <1>3, <1>4 DEF TypeOK, More, Position

\* The records the steps of a run make.
LEMMA RunUpdate ==
    ASSUME NEW rec \in Run, NEW p \in {"new", "loop", "over", "cut"} \cup Steps,
           NEW o \in Outcomes, NEW S \in SUBSET Keys
    PROVE  /\ [rec EXCEPT !.phase = p] \in Run
           /\ [rec EXCEPT !.phase = p, !.outcome = o] \in Run
           /\ [rec EXCEPT !.phase = p, !.settled = S] \in Run
BY DEF Run

\* A move to another step keeps the results.
LEMMA GotoType ==
    ASSUME TypeOK, NEW r \in Runs, NEW p \in {"loop", "over", "cut"} \cup Steps, Goto(r, p),
           p \in Steps => More(r)
    PROVE  /\ run' \in [Runs -> Run]
           /\ \A s \in Runs : Len(run[s].results)' <= Len(Actions[s])
           /\ \A s \in Runs : (run[s].phase \in Steps => More(s))'
<1>1. run[r] \in Run
  BY DEF TypeOK
<1>2. [run[r] EXCEPT !.phase = p] \in Run
  BY <1>1, RunUpdate DEF Outcomes
<1>3. run' = [run EXCEPT ![r] = [run[r] EXCEPT !.phase = p]]
  BY DEF Goto
<1>4. [run[r] EXCEPT !.phase = p].results = run[r].results /\ [run[r] EXCEPT !.phase = p].phase = p
  BY <1>1 DEF Run
<1> QED
  BY <1>2, <1>3, <1>4, MoveType

\* Every step is typed.
LEMMA TypeStep == TypeOK /\ [Next]_vars => TypeOK'
<1> SUFFICES ASSUME TypeOK, [Next]_vars PROVE TypeOK'
  OBVIOUS
<1> USE DEF store, history
<1>m. \A r \in Runs : run[r].phase \in Steps => More(r) /\ Current(r) \in Keys
  BY ActionExecutorAssumption DEF TypeOK, More, Current
<1>1. ASSUME NEW r \in Runs, Start(r) PROVE TypeOK'
  <2> DEFINE rec == [run[r] EXCEPT !.phase = "loop", !.settled = Settled]
  <2>1. run[r] \in Run /\ Settled \in SUBSET Keys
    BY DEF TypeOK, Settled
  <2>2. rec \in Run
    BY <2>1, RunUpdate DEF Outcomes
  <2>3. run' = [run EXCEPT ![r] = rec]
    BY <1>1 DEF Start
  <2>4. rec.results = run[r].results /\ rec.phase = "loop"
    BY <2>1 DEF Run
  <2> HIDE DEF rec
  <2> QED
    BY <2>2, <2>3, <2>4, <1>1, MoveType DEF Start, TypeOK, Steps
<1>2. ASSUME NEW r \in Runs, Skip(r) PROVE TypeOK'
  BY <1>2, ReportType DEF Skip, TypeOK, Results
<1>3. ASSUME NEW r \in Runs, Replay(r) PROVE TypeOK'
  BY <1>3, ReportType DEF Replay, TypeOK, Results
<1>4. ASSUME NEW r \in Runs, Miss(r) PROVE TypeOK'
  <2>1. Current(r) \in Keys
    BY <1>4, ActionExecutorAssumption DEF Miss, More, Current
  <2> QED
    BY <2>1, <1>4, GotoType DEF Miss, TypeOK, Steps
<1>5. ASSUME NEW r \in Runs, Prepare(r) PROVE TypeOK'
  BY <1>5, <1>m, GotoType, ReportType DEF Prepare, Refuse, TypeOK, Steps, Results, Outcomes, Active
<1>6. ASSUME NEW r \in Runs, Ask(r) PROVE TypeOK'
  <2>1. approval' \in [Keys -> {"none", "pending", "approved"}]
    BY <1>6, <1>m DEF Ask, TypeOK, Active, Steps
  <2>2. Goto(r, "execute") \/ Refuse(r)
    BY <1>6 DEF Ask
  <2> QED
    BY <2>1, <2>2, <1>6, <1>m, GotoType, ReportType DEF Ask, Refuse, TypeOK, Steps, Results,
       Outcomes, Active
<1>7. ASSUME NEW r \in Runs, Execute(r) PROVE TypeOK'
  <2>1. effects' \in [Keys -> Nat]
    BY <1>7, <1>m DEF Execute, TypeOK, Active, Steps
  <2>2. PICK p \in {"verify", "record"} :
            run' = [run EXCEPT ![r] = [run[r] EXCEPT !.phase = p, !.outcome = "failed"]]
    BY <1>7 DEF Execute
  <2>3. More(r) /\ run[r] \in Run
    BY <1>7, <1>m DEF Execute, Active, Steps, TypeOK
  <2>4. [run[r] EXCEPT !.phase = p, !.outcome = "failed"] \in Run
    BY <2>3, RunUpdate DEF Steps, Outcomes
  <2>5. [run[r] EXCEPT !.phase = p, !.outcome = "failed"].results = run[r].results
    BY <2>3 DEF Run
  <2> QED
    BY <2>1, <2>2, <2>3, <2>4, <2>5, <1>7, MoveType DEF Execute, TypeOK
<1>8. ASSUME NEW r \in Runs, Verify(r) PROVE TypeOK'
  <2>2. PICK o \in Outcomes :
            run' = [run EXCEPT ![r] = [run[r] EXCEPT !.phase = "record", !.outcome = o]]
    BY <1>8 DEF Verify
  <2>3. More(r) /\ run[r] \in Run
    BY <1>8, <1>m DEF Verify, Active, Steps, TypeOK
  <2>4. [run[r] EXCEPT !.phase = "record", !.outcome = o] \in Run
    BY <2>3, RunUpdate DEF Steps
  <2>5. [run[r] EXCEPT !.phase = "record", !.outcome = o].results = run[r].results
    BY <2>3 DEF Run
  <2> QED
    BY <2>2, <2>3, <2>4, <2>5, <1>8, MoveType DEF Verify, TypeOK
<1>9. ASSUME NEW r \in Runs, Record(r) PROVE TypeOK'
  <2>1. More(r) /\ Current(r) \in Keys /\ run[r].outcome \in Outcomes
    BY <1>9, <1>m DEF Record, Active, Steps, TypeOK, Run
  <2>2. run[r].outcome \in Results /\ run[r].outcome \in Entry
    BY <2>1 DEF Results, Entry
  <2>3. memory' \in [Keys -> Entry] /\ log' \in [Keys -> Entry]
    BY <2>1, <2>2, <1>9 DEF Record, TypeOK
  <2> QED
    BY <2>1, <2>2, <2>3, <1>9, ReportType DEF Record, TypeOK
<1>10. ASSUME NEW r \in Runs, RecordFails(r) PROVE TypeOK'
  <2>1. More(r) /\ Current(r) \in Keys /\ run[r].outcome \in Entry
    BY <1>10, <1>m DEF RecordFails, Active, Steps, TypeOK, Run, Entry
  <2>2. log' \in [Keys -> Entry] /\ torn' \in BOOLEAN
    BY <2>1, <1>10 DEF RecordFails, TypeOK
  <2>3. Report(r, "failed", TRUE) /\ "failed" \in Results
    BY <1>10 DEF RecordFails, Refuse, Results, Outcomes
  <2>4. /\ lost' \subseteq Keys /\ faults' \in Nat
        /\ UNCHANGED <<memory, up, approval, effects, granted, overlap>>
    BY <2>1, <1>10 DEF RecordFails, TypeOK
  <2>5. /\ run' \in [Runs -> Run]
        /\ \A s \in Runs : Len(run[s].results)' <= Len(Actions[s])
        /\ \A s \in Runs : (run[s].phase \in Steps => More(s))'
    BY <2>1, <2>3, ReportType
  <2> QED
    BY <2>2, <2>4, <2>5 DEF TypeOK
<1>11. ASSUME NEW r \in Runs, Finish(r) PROVE TypeOK'
  BY <1>11, GotoType DEF Finish, TypeOK, Steps
<1>12. ASSUME NEW k \in Keys, Approve(k) \/ CloseApproval(k) PROVE TypeOK'
  BY <1>12 DEF Approve, CloseApproval, TypeOK, More, Position
<1>13. CASE Crash
  <2>1. \A r \in Runs : run[r] \in Run /\ [run[r] EXCEPT !.phase = "cut"] \in Run
    BY RunUpdate DEF TypeOK, Outcomes
  <2>2. run' \in [Runs -> Run]
    BY <2>1, <1>13 DEF Crash
  <2>3. \A r \in Runs : /\ run'[r].results = run[r].results
                        /\ run'[r].phase \notin Steps
    BY <2>1, <1>13 DEF Crash, Run, Steps
  <2>4. memory' \in [Keys -> Entry]
    BY <1>13 DEF Crash, Empty, Entry
  <2>5. /\ lost' \subseteq Keys
        /\ faults' \in Nat
        /\ up' \in BOOLEAN
    <3>2. lost' \subseteq Keys
      BY <1>13, Zenon DEF Crash, TypeOK
    <3>3. faults' = faults + 1
      BY <1>13 DEF Crash
    <3>5. up' \in BOOLEAN
      BY <1>13, Zenon DEF Crash
    <3>4. faults \in Nat
      BY DEF TypeOK
    <3> QED
      BY <3>2, <3>3, <3>4, <3>5
  <2>6. UNCHANGED <<log, torn, approval, effects, granted, overlap>>
    BY <1>13 DEF Crash
  <2> QED
    BY <2>2, <2>3, <2>4, <2>5, <2>6 DEF TypeOK
<1>14. CASE Boot
  BY <1>14 DEF Boot, TypeOK, More, Position
<1>15. CASE UNCHANGED vars
  BY <1>15 DEF vars, TypeOK, More, Position
<1> QED
  BY <1>1, <1>2, <1>3, <1>4, <1>5, <1>6, <1>7, <1>8, <1>9, <1>10, <1>11, <1>12, <1>13, <1>14, <1>15
     DEF Next

-----------------------------------------------------------------------------
\* The inductive invariant

\* What is reported is recorded: on disk always, in memory while the process
\* runs; what a run knows to be settled stays so.
Durable ==
    /\ \A k \in Keys : memory[k] # "none" => log[k] # "none"
    /\ ReportedIsDurable
    /\ up => \A k \in Settled : memory[k] # "none"
    /\ \A r \in Runs : run[r].settled \subseteq Settled
    /\ NeverRepeated

\* A run with a failed result is in its failed part.
PriorSound ==
    /\ StopsAfterFailure
    /\ \A r \in Runs : (\E i \in DOMAIN run[r].results : run[r].results[i] = "failed") => run[r].prior
    /\ \A r \in Runs : run[r].phase \in Steps => ~run[r].prior

\* Behind the approval gate there is a consent.
Consent ==
    /\ \A k \in Keys : approval[k] = "approved" => k \in granted
    /\ \A r \in Runs : run[r].phase \in Steps \ {"prepare", "ask"} /\ Current(r) \in Gated
                          => Current(r) \in granted
    /\ EffectNeedsApproval

Recorded(k) == log[k] # "none" /\ (up => memory[k] # "none")
Before == {"prepare", "ask", "execute"}
After  == {"verify", "record"}

\* Where no two runs met and no record was lost, an effect is either recorded
\* or that of the one run that is about to record it.
Accounted ==
    /\ \A k \in Keys \ overlap : \A r, s \in Underway(k) : r = s
    /\ \A k \in Keys \ (overlap \cup lost) :
          /\ \A r \in Underway(k) : run[r].phase \in Before => effects[k] = 0
          /\ effects[k] <= 1
          /\ effects[k] # 0 => Recorded(k) \/ \E r \in Underway(k) : run[r].phase \in After

IInv == TypeOK /\ Durable /\ PriorSound /\ Consent /\ Accounted

-----------------------------------------------------------------------------
\* The two forms of a step of a run

\* Run r goes to step p and knows S to be settled.
Moved(r, p, S) ==
    /\ run'[r].phase = p /\ run'[r].prior = run[r].prior /\ run'[r].settled = S
    /\ \A s \in Runs : s # r => run'[s] = run[s]
    /\ \A s \in Runs : run'[s].results = run[s].results /\ Current(s)' = Current(s)
    /\ Settled' = Settled

\* Run r reports x for its action.
Reported(r, x, b) ==
    /\ run'[r].phase = "loop" /\ run'[r].prior = b /\ run'[r].settled = run[r].settled
    /\ run'[r].results = Append(run[r].results, x)
    /\ \A s \in Runs : s # r => run'[s] = run[s] /\ Current(s)' = Current(s)
    /\ Settled' = Settled \cup (IF x \in {"executed", "replay"} THEN {Current(r)} ELSE {})

\* The settled keys depend on the results alone.
LEMMA SettledSame ==
    ASSUME \A s \in Runs : run'[s].results = run[s].results
    PROVE  Settled' = Settled
BY DEF Settled

LEMMA MoveForm ==
    ASSUME TypeOK, NEW r \in Runs, NEW rec, run' = [run EXCEPT ![r] = rec],
           rec.results = run[r].results, rec.prior = run[r].prior
    PROVE  Moved(r, rec.phase, rec.settled)
<1>1. run'[r] = rec /\ \A s \in Runs : s # r => run'[s] = run[s]
  BY DEF TypeOK
<1>2. \A s \in Runs : run'[s].results = run[s].results
  BY <1>1
<1>3. \A s \in Runs : Current(s)' = Current(s)
  BY <1>2 DEF Current, Position
<1> QED
  BY <1>1, <1>2, <1>3, SettledSame DEF Moved

LEMMA GotoForm ==
    ASSUME TypeOK, NEW r \in Runs, NEW p, Goto(r, p)
    PROVE  Moved(r, p, run[r].settled)
<1> DEFINE rec == [run[r] EXCEPT !.phase = p]
<1>1. run[r] \in Run
  BY DEF TypeOK
<1>2. /\ rec.results = run[r].results /\ rec.prior = run[r].prior
      /\ rec.phase = p /\ rec.settled = run[r].settled
  BY <1>1 DEF Run
<1>3. run' = [run EXCEPT ![r] = rec]
  BY DEF Goto
<1> HIDE DEF rec
<1> QED
  BY <1>2, <1>3, MoveForm

LEMMA ReportForm ==
    ASSUME TypeOK, NEW r \in Runs, More(r), NEW x \in Results, NEW b \in BOOLEAN, Report(r, x, b)
    PROVE  Reported(r, x, b)
<1> DEFINE rec == [run[r] EXCEPT !.phase = "loop", !.results = Append(run[r].results, x),
                                !.prior = b]
<1>1. run[r] \in Run
  BY DEF TypeOK
<1>2. /\ rec.results = Append(run[r].results, x) /\ rec.prior = b
      /\ rec.phase = "loop" /\ rec.settled = run[r].settled
  BY <1>1 DEF Run
<1>3. run' = [run EXCEPT ![r] = rec]
  BY DEF Report
<1> HIDE DEF rec
<1>4. run'[r] = rec /\ \A s \in Runs : s # r => run'[s] = run[s]
  BY <1>3 DEF TypeOK
<1>5. \A s \in Runs : s # r => Current(s)' = Current(s)
  BY <1>4 DEF Current, Position
<1>6. Current(r) \in Keys /\ Current(r) = Actions[r][Len(run[r].results) + 1]
  BY ActionExecutorAssumption DEF More, Current, Position
<1>7. run[r].results \in Seq(Results)
  BY <1>1 DEF Run
<1>8. \A k \in Keys :
         (\E i \in DOMAIN run'[r].results :
             run'[r].results[i] \in {"executed", "replay"} /\ Actions[r][i] = k)
         <=> \/ x \in {"executed", "replay"} /\ k = Current(r)
             \/ \E i \in DOMAIN run[r].results :
                   run[r].results[i] \in {"executed", "replay"} /\ Actions[r][i] = k
  <2> DEFINE res == run[r].results
             n   == Len(res)
  <2>1. /\ run'[r].results = Append(res, x) /\ n \in Nat /\ DOMAIN res = 1 .. n
        /\ DOMAIN Append(res, x) = 1 .. (n + 1) /\ Append(res, x)[n + 1] = x
        /\ \A i \in 1 .. n : Append(res, x)[i] = res[i]
    BY <1>2, <1>4, <1>7
  <2>2. Current(r) = Actions[r][n + 1]
    BY <1>6
  <2> HIDE DEF res, n
  <2>3. \A i \in 1 .. (n + 1) : i \in 1 .. n \/ i = n + 1
    BY <2>1
  <2>4. 1 .. n \subseteq 1 .. (n + 1) /\ n + 1 \in 1 .. (n + 1)
    BY <2>1
  <2>5. run[r].results = res
    BY DEF res
  <2> QED
    BY <2>1, <2>2, <2>3, <2>4, <2>5, Zenon
<1>9. Settled' = Settled \cup (IF x \in {"executed", "replay"} THEN {Current(r)} ELSE {})
  <2>1. \A k \in Keys : k \in Settled' <=>
            k \in Settled \/ (x \in {"executed", "replay"} /\ k = Current(r))
    BY <1>4, <1>8 DEF Settled
  <2>2. Settled' \subseteq Keys /\ Settled \subseteq Keys
    BY DEF Settled
  <2> QED
    BY <2>1, <2>2, <1>6
<1> QED
  BY <1>2, <1>4, <1>5, <1>9 DEF Reported

\* Every action of a run has one of the forms.
LEMMA Forms ==
    ASSUME TypeOK, NEW r \in Runs
    PROVE  /\ Start(r) => Moved(r, "loop", Settled)
           /\ Skip(r) => Reported(r, "skipped", TRUE)
           /\ Replay(r) => Reported(r, "replay", FALSE)
           /\ Miss(r) => Moved(r, "prepare", run[r].settled)
           /\ Prepare(r) => \/ Reported(r, "failed", TRUE)
                            \/ \E p \in {"ask", "execute"} : Moved(r, p, run[r].settled)
           /\ Ask(r) => Reported(r, "failed", TRUE) \/ Moved(r, "execute", run[r].settled)
           /\ Execute(r) => \E p \in After : Moved(r, p, run[r].settled)
           /\ Verify(r) => Moved(r, "record", run[r].settled)
           /\ Record(r) => Reported(r, run[r].outcome, run[r].outcome = "failed")
           /\ RecordFails(r) => Reported(r, "failed", TRUE)
           /\ Finish(r) => Moved(r, "over", run[r].settled)
<1>1. run[r] \in Run /\ (run[r].phase \in Steps => More(r))
  BY DEF TypeOK
<1>2. ASSUME NEW x \in Results, NEW b \in BOOLEAN, Report(r, x, b), run[r].phase \in Steps
      PROVE  Reported(r, x, b)
  BY <1>1, <1>2, ReportForm
<1>3. Refuse(r) /\ run[r].phase \in Steps => Reported(r, "failed", TRUE)
  BY <1>2 DEF Refuse, Results, Outcomes
<1>4. ASSUME Start(r) PROVE Moved(r, "loop", Settled)
  <2> DEFINE rec == [run[r] EXCEPT !.phase = "loop", !.settled = Settled]
  <2>1. /\ rec.results = run[r].results /\ rec.prior = run[r].prior
        /\ rec.phase = "loop" /\ rec.settled = Settled
    BY <1>1 DEF Run
  <2>2. run' = [run EXCEPT ![r] = rec]
    BY <1>4 DEF Start
  <2> HIDE DEF rec
  <2> QED
    BY <2>1, <2>2, MoveForm
<1>5. ASSUME Execute(r) PROVE \E p \in After : Moved(r, p, run[r].settled)
  <2>1. PICK p \in After :
            run' = [run EXCEPT ![r] = [run[r] EXCEPT !.phase = p, !.outcome = "failed"]]
    BY <1>5 DEF Execute, After
  <2> DEFINE rec == [run[r] EXCEPT !.phase = p, !.outcome = "failed"]
  <2>2. /\ rec.results = run[r].results /\ rec.prior = run[r].prior
        /\ rec.phase = p /\ rec.settled = run[r].settled
    BY <1>1 DEF Run
  <2>3. run' = [run EXCEPT ![r] = rec]
    BY <2>1
  <2> HIDE DEF rec
  <2> QED
    BY <2>2, <2>3, MoveForm
<1>6. ASSUME Verify(r) PROVE Moved(r, "record", run[r].settled)
  <2>1. PICK o \in Outcomes :
            run' = [run EXCEPT ![r] = [run[r] EXCEPT !.phase = "record", !.outcome = o]]
    BY <1>6 DEF Verify
  <2> DEFINE rec == [run[r] EXCEPT !.phase = "record", !.outcome = o]
  <2>2. /\ rec.results = run[r].results /\ rec.prior = run[r].prior
        /\ rec.phase = "record" /\ rec.settled = run[r].settled
    BY <1>1 DEF Run
  <2>3. run' = [run EXCEPT ![r] = rec]
    BY <2>1
  <2> HIDE DEF rec
  <2> QED
    BY <2>2, <2>3, MoveForm
<1>7. (Skip(r) => Reported(r, "skipped", TRUE)) /\ (Replay(r) => Reported(r, "replay", FALSE))
  BY ReportForm DEF Skip, Replay, Results
<1>8. (Miss(r) => Moved(r, "prepare", run[r].settled)) /\ (Finish(r) => Moved(r, "over", run[r].settled))
  BY GotoForm DEF Miss, Finish
<1>9. Prepare(r) => \/ Reported(r, "failed", TRUE)
                    \/ \E p \in {"ask", "execute"} : Moved(r, p, run[r].settled)
  BY <1>3, GotoForm DEF Prepare, Active, Steps
<1>10. Ask(r) => Reported(r, "failed", TRUE) \/ Moved(r, "execute", run[r].settled)
  BY <1>3, GotoForm DEF Ask, Active, Steps
<1>11. Record(r) => Reported(r, run[r].outcome, run[r].outcome = "failed")
  <2>1. run[r].outcome \in Results
    BY <1>1 DEF Run, Results
  <2> QED
    BY <2>1, <1>2 DEF Record, Active, Steps
<1>12. RecordFails(r) => Reported(r, "failed", TRUE)
  BY <1>3 DEF RecordFails, Active, Steps
<1> QED
  BY <1>4, <1>5, <1>6, <1>7, <1>8, <1>9, <1>10, <1>11, <1>12

-----------------------------------------------------------------------------
\* The parts of the invariant are inductive

\* The current action of a run at one of its steps is one of the plan.
LEMMA CurrentKey ==
    ASSUME TypeOK, NEW r \in Runs, run[r].phase \in Steps \/ More(r)
    PROVE  Current(r) \in Keys
BY ActionExecutorAssumption DEF TypeOK, More, Current

LEMMA DurableStep == TypeOK /\ Durable /\ [Next]_vars => Durable'
<1> SUFFICES ASSUME TypeOK, Durable, [Next]_vars PROVE Durable'
  OBVIOUS
<1> USE DEF store
<1>1. ASSUME NEW r \in Runs, NEW p, NEW S, Moved(r, p, S), S \in {run[r].settled, Settled},
             UNCHANGED <<memory, log, up>>, p \in Steps => Current(r) \notin S
      PROVE  Durable'
  <2>1. Settled' = Settled /\ run'[r].phase = p /\ run'[r].settled = S
    BY <1>1 DEF Moved
  <2>2. \A s \in Runs : s # r => run'[s] = run[s]
    BY <1>1 DEF Moved
  <2>3. \A s \in Runs : Current(s)' = Current(s)
    BY <1>1 DEF Moved
  <2>4. \A s \in Runs : run'[s].settled \subseteq Settled
    BY <2>1, <2>2, <1>1 DEF Durable
  <2>5. \A s \in Runs : run'[s].phase \in Steps => Current(s) \notin run'[s].settled
    BY <2>1, <2>2, <1>1 DEF Durable, NeverRepeated
  <2> QED
    BY <2>1, <2>3, <2>4, <2>5, <1>1 DEF Durable, NeverRepeated, ReportedIsDurable
<1>2. ASSUME NEW r \in Runs, NEW x, NEW b, Reported(r, x, b),
             \A k \in Keys : log[k] # "none" => log'[k] # "none",
             \A k \in Keys : memory'[k] # "none" => log'[k] # "none",
             up' = up, up => \A k \in Keys : memory[k] # "none" => memory'[k] # "none",
             x \in {"executed", "replay"} =>
                /\ Current(r) \in Keys /\ log'[Current(r)] # "none"
                /\ up => memory'[Current(r)] # "none"
      PROVE  Durable'
  <2>1. /\ run'[r].phase = "loop" /\ run'[r].settled = run[r].settled
        /\ Settled' = Settled \cup (IF x \in {"executed", "replay"} THEN {Current(r)} ELSE {})
    BY <1>2 DEF Reported
  <2>2. \A s \in Runs : s # r => run'[s] = run[s] /\ Current(s)' = Current(s)
    BY <1>2 DEF Reported
  <2>3. Settled \subseteq Keys
    BY DEF Settled
  <2>4. \A k \in Settled' : log'[k] # "none" /\ (up => memory'[k] # "none")
    BY <2>1, <2>3, <1>2 DEF Durable, ReportedIsDurable
  <2>5. \A s \in Runs : run'[s].settled \subseteq Settled'
    BY <2>1, <2>2 DEF Durable
  <2>6. \A s \in Runs : run'[s].phase \in Steps => Current(s)' \notin run'[s].settled
    BY <2>1, <2>2 DEF Durable, NeverRepeated, Steps
  <2> QED
    BY <2>4, <2>5, <2>6, <1>2 DEF Durable, NeverRepeated, ReportedIsDurable
<1>3. ASSUME NEW r \in Runs, NEW x \in {"failed", "skipped"}, NEW b, Reported(r, x, b),
             UNCHANGED <<memory, log, up>>
      PROVE  Durable'
  BY <1>2, <1>3 DEF Durable
<1>4. \A r \in Runs : run[r].phase \in Steps => Current(r) \notin run[r].settled
  BY DEF Durable, NeverRepeated
<1>5. ASSUME NEW r \in Runs, Start(r) \/ Finish(r) PROVE Durable'
  <2>1. \/ Moved(r, "loop", Settled)
        \/ Moved(r, "over", run[r].settled)
    BY <1>5, Forms
  <2> QED
    BY <2>1, <1>1, <1>5 DEF Start, Finish, Steps
<1>6. ASSUME NEW r \in Runs, Skip(r) PROVE Durable'
  BY <1>6, <1>3, Forms DEF Skip
<1>7. ASSUME NEW r \in Runs, Replay(r) PROVE Durable'
  <2>1. Current(r) \in Keys /\ memory[Current(r)] # "none" /\ log[Current(r)] # "none"
    BY <1>7, CurrentKey DEF Replay, Durable
  <2>2. Reported(r, "replay", FALSE) /\ UNCHANGED <<memory, log, up>>
    BY <1>7, Forms DEF Replay
  <2> QED
    BY <2>1, <2>2, <1>2 DEF Durable
<1>8. ASSUME NEW r \in Runs, Miss(r) PROVE Durable'
  <2>1. Current(r) \notin run[r].settled
    BY <1>8 DEF Miss, Active, Durable
  <2> QED
    BY <2>1, <1>1, <1>8, Forms DEF Miss
<1>9. ASSUME NEW r \in Runs, Prepare(r) \/ Ask(r) \/ Execute(r) \/ Verify(r) PROVE Durable'
  <2>1. UNCHANGED <<memory, log, up>> /\ run[r].phase \in Steps
    BY <1>9 DEF Prepare, Ask, Execute, Verify, Active, Steps
  <2>2. Reported(r, "failed", TRUE) \/ \E p \in Steps : Moved(r, p, run[r].settled)
    BY <1>9, Forms DEF Steps, After
  <2> QED
    BY <2>1, <2>2, <1>1, <1>3, <1>4
<1>10. ASSUME NEW r \in Runs, Record(r) PROVE Durable'
  <2>1. Current(r) \in Keys /\ run[r].outcome \in Outcomes
    BY <1>10, CurrentKey DEF Record, Active, Steps, TypeOK, Run
  <2>2. /\ memory' = [memory EXCEPT ![Current(r)] = run[r].outcome]
        /\ log' = [log EXCEPT ![Current(r)] = run[r].outcome]
        /\ up' = up
    BY <1>10 DEF Record
  <2>3. /\ \A k \in Keys : log[k] # "none" => log'[k] # "none"
        /\ \A k \in Keys : memory[k] # "none" => memory'[k] # "none"
        /\ \A k \in Keys : memory'[k] # "none" => log'[k] # "none"
        /\ log'[Current(r)] # "none" /\ memory'[Current(r)] # "none"
    BY <2>1, <2>2 DEF TypeOK, Durable, Outcomes
  <2> QED
    BY <2>1, <2>2, <2>3, <1>2, <1>10, Forms
<1>11. ASSUME NEW r \in Runs, RecordFails(r) PROVE Durable'
  <2>1. Current(r) \in Keys /\ run[r].outcome \in Outcomes
    BY <1>11, CurrentKey DEF RecordFails, Active, Steps, TypeOK, Run
  <2>2. log' \in {log, [log EXCEPT ![Current(r)] = run[r].outcome]} /\ memory' = memory /\ up' = up
    BY <1>11 DEF RecordFails
  <2>3. \A k \in Keys : log[k] # "none" => log'[k] # "none"
    BY <2>1, <2>2 DEF TypeOK, Outcomes
  <2>4. \A k \in Keys : memory'[k] # "none" => log'[k] # "none"
    BY <2>2, <2>3 DEF Durable
  <2>5. Reported(r, "failed", TRUE)
    BY <1>11, Forms
  <2> QED
    BY <2>2, <2>3, <2>4, <2>5, <1>2
<1>12. ASSUME UNCHANGED <<run, memory, log, up>> PROVE Durable'
  BY <1>12, SettledSame DEF Durable, ReportedIsDurable, NeverRepeated, Current, Position
<1>13. ASSUME NEW k \in Keys, Approve(k) \/ CloseApproval(k) PROVE Durable'
  BY <1>13, <1>12 DEF Approve, CloseApproval
<1>14. CASE Crash
  <2>1. \A r \in Runs : /\ run'[r].results = run[r].results
                        /\ run'[r].settled = run[r].settled
                        /\ run'[r].phase \notin Steps
    <3>1. \A r \in Runs : run[r] \in Run
      BY DEF TypeOK
    <3> QED
      BY <3>1, <1>14 DEF Crash, Run, Steps
  <2>2. Settled' = Settled
    BY <2>1, SettledSame
  <2>3. memory' = Empty /\ log' = log /\ ~up'
    BY <1>14 DEF Crash
  <2> QED
    BY <2>1, <2>2, <2>3 DEF Durable, ReportedIsDurable, NeverRepeated, Empty
<1>15. CASE Boot
  <2>1. memory' = log /\ log' = log /\ run' = run /\ Settled' = Settled
    BY <1>15, SettledSame DEF Boot
  <2> QED
    BY <2>1 DEF Durable, ReportedIsDurable, NeverRepeated, Current, Position
<1>16. CASE UNCHANGED vars
  BY <1>16, <1>12 DEF vars
<1> QED
  BY <1>5, <1>6, <1>7, <1>8, <1>9, <1>10, <1>11, <1>13, <1>14, <1>15, <1>16 DEF Next

\* A report appends to a list whose parts are known.
LEMMA Appended ==
    ASSUME NEW S, NEW res \in Seq(S), NEW x \in S
    PROVE  /\ DOMAIN Append(res, x) = 1 .. (Len(res) + 1) /\ DOMAIN res = 1 .. Len(res)
           /\ Len(res) \in Nat
           /\ Append(res, x)[Len(res) + 1] = x
           /\ \A i \in 1 .. Len(res) : Append(res, x)[i] = res[i]
OBVIOUS

LEMMA PriorStep == TypeOK /\ PriorSound /\ [Next]_vars => PriorSound'
<1> SUFFICES ASSUME TypeOK, PriorSound, [Next]_vars PROVE PriorSound'
  OBVIOUS
<1> DEFINE Sound(rec) ==
      /\ \A i, j \in DOMAIN rec.results : i < j /\ rec.results[i] = "failed" => rec.results[j] = "skipped"
      /\ rec.phase \in Steps => \A i \in DOMAIN rec.results : rec.results[i] # "failed"
      /\ (\E i \in DOMAIN rec.results : rec.results[i] = "failed") => rec.prior
      /\ rec.phase \in Steps => ~rec.prior
<1>a. PriorSound <=> \A r \in Runs : Sound(run[r])
  BY DEF PriorSound, StopsAfterFailure
<1>b. PriorSound' <=> \A r \in Runs : Sound(run'[r])
  BY DEF PriorSound, StopsAfterFailure
<1>c. \A r \in Runs : Sound(run[r]) /\ run[r].results \in Seq(Results)
  BY <1>a DEF TypeOK, Run
<1>1. ASSUME NEW r \in Runs, NEW p, NEW S, Moved(r, p, S), p \in Steps => ~run[r].prior
      PROVE  PriorSound'
  <2>1. /\ run'[r].phase = p /\ run'[r].prior = run[r].prior
        /\ \A s \in Runs : run'[s].results = run[s].results
        /\ \A s \in Runs : s # r => run'[s] = run[s]
    BY <1>1 DEF Moved
  <2>2. Sound(run'[r])
    BY <2>1, <1>1, <1>c
  <2>3. \A s \in Runs : s # r => Sound(run'[s])
    BY <2>1, <1>c
  <2> QED
    BY <2>2, <2>3, <1>b
<1>2. ASSUME NEW r \in Runs, NEW x \in Results, NEW b, Reported(r, x, b),
             run[r].prior => b /\ x = "skipped", x = "failed" => b
      PROVE  PriorSound'
  <2> DEFINE res == run[r].results
             new == run'[r].results
  <2>1. /\ run'[r].phase = "loop" /\ run'[r].prior = b /\ new = Append(res, x)
        /\ \A s \in Runs : s # r => run'[s] = run[s]
    BY <1>2 DEF Reported
  <2>2. /\ DOMAIN new = 1 .. (Len(res) + 1) /\ DOMAIN res = 1 .. Len(res) /\ Len(res) \in Nat
        /\ new[Len(res) + 1] = x /\ \A i \in 1 .. Len(res) : new[i] = res[i]
    BY <2>1, <1>c, Appended
  <2>3. \A i \in DOMAIN res : res[i] = "failed" => run[r].prior
    BY <1>c
  <2>4. \A i, j \in DOMAIN res : i < j /\ res[i] = "failed" => res[j] = "skipped"
    BY <1>c
  <2> HIDE DEF res, new
  <2>5. \A i, j \in DOMAIN new : i < j /\ new[i] = "failed" => new[j] = "skipped"
    <3> SUFFICES ASSUME NEW i \in DOMAIN new, NEW j \in DOMAIN new, i < j, new[i] = "failed"
                 PROVE  new[j] = "skipped"
      OBVIOUS
    <3>1. i \in 1 .. Len(res) /\ res[i] = "failed"
      BY <2>2
    <3>2. CASE j \in 1 .. Len(res)
      BY <3>1, <3>2, <2>2, <2>4
    <3>3. CASE j = Len(res) + 1
      BY <3>1, <3>3, <2>2, <2>3, <1>2
    <3> QED
      BY <3>2, <3>3, <2>2
  <2>6. (\E i \in DOMAIN new : new[i] = "failed") => b
    <3> SUFFICES ASSUME NEW i \in DOMAIN new, new[i] = "failed" PROVE b
      OBVIOUS
    <3>1. CASE i \in 1 .. Len(res)
      BY <3>1, <2>2, <2>3, <1>2
    <3>2. CASE i = Len(res) + 1
      BY <3>2, <2>2, <1>2
    <3> QED
      BY <3>1, <3>2, <2>2
  <2>7. Sound(run'[r])
    BY <2>1, <2>5, <2>6 DEF new, Steps
  <2>8. \A s \in Runs : s # r => Sound(run'[s])
    BY <2>1, <1>c
  <2> QED
    BY <2>7, <2>8, <1>b
<1> HIDE DEF Sound
<1>3. ASSUME UNCHANGED run PROVE PriorSound'
  BY <1>3, <1>a, <1>b
<1>4. \A r \in Runs : run[r].phase \in Steps => ~run[r].prior
  BY DEF PriorSound
<1>5. ASSUME NEW r \in Runs, Start(r) \/ Finish(r) PROVE PriorSound'
  <2>1. Moved(r, "loop", Settled) \/ Moved(r, "over", run[r].settled)
    BY <1>5, Forms
  <2> QED
    BY <2>1, <1>1 DEF Steps
<1>6. ASSUME NEW r \in Runs, Skip(r) \/ Replay(r) PROVE PriorSound'
  <2>1. Reported(r, "skipped", TRUE) \/ (Reported(r, "replay", FALSE) /\ ~run[r].prior)
    BY <1>6, Forms DEF Replay
  <2> QED
    BY <2>1, <1>2 DEF Results
<1>7. ASSUME NEW r \in Runs, Miss(r) PROVE PriorSound'
  BY <1>7, <1>1, Forms DEF Miss
<1>8. ASSUME NEW r \in Runs,
             Prepare(r) \/ Ask(r) \/ Execute(r) \/ Verify(r) \/ Record(r) \/ RecordFails(r)
      PROVE  PriorSound'
  <2>1. ~run[r].prior
    BY <1>8, <1>4 DEF Prepare, Ask, Execute, Verify, Record, RecordFails, Active, Steps
  <2>2. \/ Reported(r, "failed", TRUE)
        \/ \E p : Moved(r, p, run[r].settled)
        \/ Reported(r, run[r].outcome, run[r].outcome = "failed")
    BY <1>8, Forms
  <2>3. run[r].outcome \in Results
    BY DEF TypeOK, Run, Results
  <2> QED
    BY <2>1, <2>2, <2>3, <1>1, <1>2 DEF Results, Outcomes
<1>9. CASE Crash
  <2>1. \A r \in Runs : /\ run'[r].results = run[r].results /\ run'[r].prior = run[r].prior
                        /\ run'[r].phase \notin Steps
    <3>1. \A r \in Runs : run[r] \in Run
      BY DEF TypeOK
    <3> QED
      BY <3>1, <1>9 DEF Crash, Run, Steps
  <2>2. \A r \in Runs : Sound(run'[r])
    BY <2>1, <1>c DEF Sound
  <2> QED
    BY <2>2, <1>b
<1> QED
  BY <1>3, <1>5, <1>6, <1>7, <1>8, <1>9 DEF Next, Approve, CloseApproval, Boot, vars

LEMMA ConsentStep == TypeOK /\ Consent /\ [Next]_vars => Consent'
<1> SUFFICES ASSUME TypeOK, Consent, [Next]_vars PROVE Consent'
  OBVIOUS
<1> DEFINE Consented(r) == run[r].phase \in Steps \ {"prepare", "ask"} /\ Current(r) \in Gated
                              => Current(r) \in granted
<1>a. \A r \in Runs : Consented(r)
  BY DEF Consent
<1>1. ASSUME NEW r \in Runs, NEW p, NEW S, Moved(r, p, S), UNCHANGED <<approval, granted>>,
             p \in Steps \ {"prepare", "ask"} /\ Current(r) \in Gated => Current(r) \in granted,
             \A k \in Gated : effects'[k] > 0 => k \in granted
      PROVE  Consent'
  <2>1. \A s \in Runs : Consented(s)'
    BY <1>1, <1>a DEF Moved
  <2> QED
    BY <2>1, <1>1 DEF Consent, EffectNeedsApproval
<1>2. ASSUME NEW r \in Runs, NEW x, NEW b, Reported(r, x, b), UNCHANGED <<granted, effects>>,
             \A k \in Keys : approval'[k] = "approved" => k \in granted
      PROVE  Consent'
  <2>1. \A s \in Runs : Consented(s)'
    BY <1>2, <1>a DEF Reported, Steps
  <2> QED
    BY <2>1, <1>2 DEF Consent, EffectNeedsApproval
<1>3. \A k \in Keys : approval[k] = "approved" => k \in granted
  BY DEF Consent
<1>e. \A k \in Gated : effects[k] > 0 => k \in granted
  BY DEF Consent, EffectNeedsApproval
<1> HIDE DEF Consented
<1>4. ASSUME NEW r \in Runs, Start(r) \/ Finish(r) \/ Miss(r) PROVE Consent'
  <2>1. \E p \in {"loop", "over", "prepare"} : \E S : Moved(r, p, S)
    BY <1>4, Forms
  <2> QED
    BY <2>1, <1>1, <1>4, <1>e DEF Start, Finish, Miss, Steps, history
<1>5. ASSUME NEW r \in Runs, Skip(r) \/ Replay(r) \/ Record(r) \/ RecordFails(r) PROVE Consent'
  <2>1. \E x, b : Reported(r, x, b)
    BY <1>5, Forms
  <2>2. UNCHANGED <<approval, granted, effects>>
    BY <1>5 DEF Skip, Replay, Record, RecordFails, history
  <2> QED
    BY <2>1, <2>2, <1>2, <1>3
<1>6. ASSUME NEW r \in Runs, Prepare(r) PROVE Consent'
  <2>1. \/ Reported(r, "failed", TRUE)
        \/ Moved(r, IF Current(r) \in Gated THEN "ask" ELSE "execute", run[r].settled)
    <3>1. Refuse(r) => Reported(r, "failed", TRUE)
      <4>1. More(r)
        BY <1>6 DEF Prepare, Active, Steps, TypeOK
      <4> QED
        BY <4>1, ReportForm DEF Refuse, Results, Outcomes
    <3> QED
      BY <3>1, <1>6, GotoForm DEF Prepare
  <2>2. UNCHANGED <<approval, granted, effects>>
    BY <1>6 DEF Prepare, history
  <2> QED
    BY <2>1, <2>2, <1>1, <1>2, <1>3, <1>e
<1>7. ASSUME NEW r \in Runs, Ask(r) PROVE Consent'
  <2>1. Current(r) \in Keys
    BY <1>7, CurrentKey DEF Ask, Active, Steps
  <2>2. More(r)
    BY <1>7 DEF Ask, Active, Steps, TypeOK
  <2>3. \/ Moved(r, "execute", run[r].settled) /\ approval[Current(r)] = "approved" /\ approval' = approval
        \/ /\ Reported(r, "failed", TRUE)
           /\ approval' \in {approval, [approval EXCEPT ![Current(r)] = "pending"]}
    BY <1>7, <2>2, GotoForm, ReportForm DEF Ask, Refuse, Results, Outcomes
  <2>4. UNCHANGED <<granted, effects>>
    BY <1>7 DEF Ask, history
  <2>5. \A k \in Keys : approval'[k] = "approved" => k \in granted
    BY <2>1, <2>3, <1>3 DEF TypeOK
  <2> QED
    BY <2>1, <2>3, <2>4, <2>5, <1>1, <1>2, <1>3, <1>e
<1>8. ASSUME NEW r \in Runs, Execute(r) PROVE Consent'
  <2>1. PICK p \in After : Moved(r, p, run[r].settled)
    BY <1>8, Forms
  <2>2. Current(r) \in Gated => Current(r) \in granted
    BY <1>8, <1>a DEF Execute, Active, Consented, Steps
  <2>3. Current(r) \in Keys
    BY <1>8, CurrentKey DEF Execute, Active, Steps
  <2>4. \A k \in Gated : effects'[k] > 0 => k \in granted
    BY <2>2, <2>3, <1>8, <1>e, ActionExecutorAssumption DEF Execute, TypeOK
  <2> QED
    BY <2>1, <2>2, <2>4, <1>1, <1>8 DEF Execute, history
<1>9. ASSUME NEW r \in Runs, Verify(r) PROVE Consent'
  <2>1. Current(r) \in Gated => Current(r) \in granted
    BY <1>9, <1>a DEF Verify, Active, Consented, Steps
  <2> QED
    BY <2>1, <1>1, <1>9, <1>e, Forms DEF Verify, history
<1>10. ASSUME NEW k \in Keys, Approve(k) PROVE Consent'
  <2>1. \A j \in Keys : approval'[j] = "approved" => j \in granted'
    BY <1>10, <1>3 DEF Approve, TypeOK
  <2>2. granted \subseteq granted' /\ UNCHANGED <<run, effects>>
    BY <1>10 DEF Approve
  <2> QED
    BY <2>1, <2>2 DEF Consent, EffectNeedsApproval, Current, Position
<1>11. ASSUME NEW k \in Keys, CloseApproval(k) PROVE Consent'
  <2>1. \A j \in Keys : approval'[j] = "approved" => j \in granted
    BY <1>11, <1>3 DEF CloseApproval, TypeOK
  <2> QED
    BY <2>1, <1>11 DEF CloseApproval, history, Consent, EffectNeedsApproval, Current, Position
<1>12. CASE Crash
  <2>1. \A r \in Runs : run'[r].phase \notin Steps
    <3>1. \A r \in Runs : run[r] \in Run
      BY DEF TypeOK
    <3> QED
      BY <3>1, <1>12 DEF Crash, Run, Steps
  <2>2. UNCHANGED <<approval, effects, granted>>
    BY <1>12 DEF Crash
  <2> QED
    BY <2>1, <2>2 DEF Consent, EffectNeedsApproval
<1>13. ASSUME UNCHANGED <<run, approval, effects, granted>> PROVE Consent'
  BY <1>13 DEF Consent, EffectNeedsApproval, Current, Position
<1> QED
  BY <1>4, <1>5, <1>6, <1>7, <1>8, <1>9, <1>10, <1>11, <1>12, <1>13
     DEF Next, Boot, vars, history

\* How the steps of run r change the sets of runs underway.
LEMMA UnderwayMoved ==
    ASSUME NEW r \in Runs, NEW p, NEW S, Moved(r, p, S), NEW k
    PROVE  /\ \A s \in Runs : s # r => (s \in Underway(k)' <=> s \in Underway(k))
           /\ r \in Underway(k)' <=> p \in Steps /\ Current(r) = k
           /\ \A s \in Runs : s # r => run'[s] = run[s]
           /\ run'[r].phase = p
BY DEF Underway, Moved

LEMMA UnderwayReported ==
    ASSUME NEW r \in Runs, NEW x, NEW b, Reported(r, x, b), NEW k
    PROVE  /\ \A s \in Runs : s # r => (s \in Underway(k)' <=> s \in Underway(k))
           /\ r \notin Underway(k)'
           /\ \A s \in Runs : s # r => run'[s] = run[s]
BY DEF Underway, Reported, Steps

\* What Accounted says of one key
Alone(k)  == k \notin overlap => \A r, s \in Underway(k) : r = s
Counts(k) ==
    k \notin overlap \cup lost =>
        /\ \A r \in Underway(k) : run[r].phase \in Before => effects[k] = 0
        /\ effects[k] <= 1
        /\ effects[k] # 0 => Recorded(k) \/ \E r \in Underway(k) : run[r].phase \in After

LEMMA AccountedStep == TypeOK /\ Accounted /\ [Next]_vars => Accounted'
<1> SUFFICES ASSUME TypeOK, Accounted, [Next]_vars PROVE Accounted'
  OBVIOUS
<1> USE DEF store, history
<1>a. \A k \in Keys : Alone(k) /\ Counts(k)
  BY DEF Accounted, Alone, Counts
<1>b. (\A k \in Keys : Alone(k)' /\ Counts(k)') => Accounted'
  BY DEF Accounted, Alone, Counts
<1>c. Before \cap After = {} /\ Steps = Before \cup After
  BY DEF Before, After, Steps
<1>u. \A k : Underway(k) \subseteq Runs /\ Underway(k)' \subseteq Runs
  BY DEF Underway
<1>1. ASSUME UNCHANGED <<memory, log, up, effects, overlap, lost>>,
             \A k \in Keys : Underway(k)' = Underway(k),
             \A k \in Keys : \A r \in Underway(k) :
                /\ run'[r].phase \in Before => run[r].phase \in Before
                /\ run[r].phase \in After => run'[r].phase \in After
      PROVE  Accounted'
  <2> SUFFICES ASSUME NEW k \in Keys PROVE Alone(k)' /\ Counts(k)'
    BY <1>b
  <2>1. Alone(k) /\ Counts(k)
    BY <1>a
  <2>2. Recorded(k)' = Recorded(k)
    BY <1>1 DEF Recorded
  <2> QED
    BY <2>1, <2>2, <1>1 DEF Alone, Counts
<1>2. ASSUME UNCHANGED <<run, memory, log, up, effects, overlap, lost>> PROVE Accounted'
  <2>1. \A k \in Keys : Underway(k)' = Underway(k)
    BY <1>2 DEF Underway, Current, Position
  <2> QED
    BY <2>1, <1>1, <1>2
\* Run r is and stays outside of the steps.
<1>3. ASSUME NEW r \in Runs, run[r].phase \notin Steps,
             UNCHANGED <<memory, log, up, effects, overlap, lost>>,
             \/ \E p, S : Moved(r, p, S) /\ p \notin Steps
             \/ \E x, b : Reported(r, x, b)
      PROVE  Accounted'
  <2>1. \A k \in Keys : Underway(k)' = Underway(k)
    <3> SUFFICES ASSUME NEW k \in Keys PROVE Underway(k)' = Underway(k)
      OBVIOUS
    <3>1. r \notin Underway(k)
      BY <1>3 DEF Underway
    <3>2. r \notin Underway(k)' /\ \A s \in Runs : s # r => (s \in Underway(k)' <=> s \in Underway(k))
      BY <1>3, UnderwayMoved, UnderwayReported
    <3> QED
      BY <3>1, <3>2, <1>u
  <2>2. \A s \in Runs : s # r => run'[s] = run[s]
    BY <1>3, UnderwayMoved, UnderwayReported
  <2>3. \A k \in Keys : r \notin Underway(k)
    BY <1>3 DEF Underway
  <2> QED
    BY <2>1, <2>2, <2>3, <1>1, <1>3, <1>u
\* Run r goes on before it acts, or verifies.
<1>4. ASSUME NEW r \in Runs, NEW p \in Steps, Moved(r, p, run[r].settled), run[r].phase \in Steps,
             UNCHANGED <<memory, log, up, effects, overlap, lost>>,
             run[r].phase \in Before <=> p \in Before
      PROVE  Accounted'
  <2>1. \A k \in Keys : Underway(k)' = Underway(k)
    <3> SUFFICES ASSUME NEW k \in Keys PROVE Underway(k)' = Underway(k)
      OBVIOUS
    <3>1. r \in Underway(k) <=> Current(r) = k
      BY <1>4 DEF Underway
    <3>2. /\ r \in Underway(k)' <=> Current(r) = k
          /\ \A s \in Runs : s # r => (s \in Underway(k)' <=> s \in Underway(k))
      BY <1>4, UnderwayMoved
    <3> QED
      BY <3>1, <3>2, <1>u
  <2>2. run'[r].phase = p /\ \A s \in Runs : s # r => run'[s] = run[s]
    BY <1>4 DEF Moved
  <2> QED
    BY <2>1, <2>2, <1>1, <1>4, <1>c, <1>u
\* Run r gives up before it acts.
<1>5. ASSUME NEW r \in Runs, NEW x, NEW b, Reported(r, x, b), run[r].phase \in Before,
             UNCHANGED <<memory, log, up, effects, overlap, lost>>
      PROVE  Accounted'
  <2> SUFFICES ASSUME NEW k \in Keys PROVE Alone(k)' /\ Counts(k)'
    BY <1>b
  <2>1. Alone(k) /\ Counts(k)
    BY <1>a
  <2>2. /\ \A s \in Runs : s # r => (s \in Underway(k)' <=> s \in Underway(k))
        /\ r \notin Underway(k)' /\ \A s \in Runs : s # r => run'[s] = run[s]
    BY <1>5, UnderwayReported
  <2>3. Alone(k)'
    BY <2>1, <2>2, <1>u, <1>5 DEF Alone
  <2>4. Recorded(k)' = Recorded(k)
    BY <1>5 DEF Recorded
  <2>5. run[r].phase \notin After
    BY <1>5, <1>c
  <2>6. Counts(k)'
    BY <2>1, <2>2, <2>4, <2>5, <1>u, <1>5 DEF Counts
  <2> QED
    BY <2>3, <2>6
<1>6. ASSUME NEW r \in Runs, Start(r) \/ Finish(r) \/ Skip(r) \/ Replay(r) PROVE Accounted'
  <2>1. run[r].phase \notin Steps /\ UNCHANGED <<memory, log, up, effects, overlap, lost>>
    BY <1>6 DEF Start, Finish, Skip, Replay, Active, Steps
  <2>2. \/ \E p, S : Moved(r, p, S) /\ p \notin Steps
        \/ \E x, b : Reported(r, x, b)
    <3>1. \/ Moved(r, "loop", Settled) \/ Moved(r, "over", run[r].settled)
          \/ Reported(r, "skipped", TRUE) \/ Reported(r, "replay", FALSE)
      BY <1>6, Forms
    <3>2. "loop" \notin Steps /\ "over" \notin Steps
      BY DEF Steps
    <3> QED
      BY <3>1, <3>2, Zenon
  <2> QED
    BY <2>1, <2>2, <1>3
<1>7. ASSUME NEW r \in Runs, Miss(r) PROVE Accounted'
  <2> SUFFICES ASSUME NEW k \in Keys PROVE Alone(k)' /\ Counts(k)'
    BY <1>b
  <2>1. Alone(k) /\ Counts(k)
    BY <1>a
  <2>2. /\ \A s \in Runs : s # r => (s \in Underway(k)' <=> s \in Underway(k))
        /\ r \in Underway(k)' <=> Current(r) = k
        /\ \A s \in Runs : s # r => run'[s] = run[s]
        /\ run'[r].phase = "prepare"
    <3>1. Moved(r, "prepare", run[r].settled)
      BY <1>7, Forms
    <3>2. "prepare" \in Steps
      BY DEF Steps
    <3> QED
      BY <3>1, <3>2, UnderwayMoved
  <2>3. r \notin Underway(k)
    BY <1>7 DEF Miss, Active, Underway, Steps
  <2>4. UNCHANGED <<memory, log, up, effects, lost>> /\ up /\ memory[Current(r)] = "none"
    BY <1>7 DEF Miss, Active
  <2>5. Recorded(k)' = Recorded(k)
    BY <2>4 DEF Recorded
  <2>6. CASE Current(r) # k
    <3>1. Underway(k)' = Underway(k)
      BY <2>2, <2>3, <2>6, <1>u
    <3>2. k \in overlap' <=> k \in overlap
      BY <2>6, <1>7 DEF Miss
    <3> QED
      BY <3>1, <3>2, <2>1, <2>2, <2>3, <2>4, <2>5, <1>u DEF Alone, Counts
  <2>7. CASE Current(r) = k
    <3> SUFFICES ASSUME k \notin overlap' PROVE Alone(k)' /\ Counts(k)'
      BY DEF Alone, Counts
    <3>1. Underway(k) = {} /\ overlap' = overlap
      BY <2>7, <1>7 DEF Miss
    <3>2. Underway(k)' = {r}
      BY <3>1, <2>2, <2>7, <1>u
    <3>3. Alone(k)'
      BY <3>2 DEF Alone
    <3>4. ~Recorded(k)
      BY <2>4, <2>7 DEF Recorded
    <3>5. k \notin lost => effects[k] = 0
      BY <3>1, <3>4, <2>1 DEF Counts
    <3> QED
      BY <3>1, <3>2, <3>3, <3>5, <2>2, <2>4 DEF Counts
  <2> QED
    BY <2>6, <2>7
<1>8. ASSUME NEW r \in Runs, Prepare(r) \/ Ask(r) PROVE Accounted'
  <2>1. run[r].phase \in Before /\ UNCHANGED <<memory, log, up, effects, overlap, lost>>
    BY <1>8 DEF Prepare, Ask, Active, Before
  <2>2. \/ Reported(r, "failed", TRUE)
        \/ \E p \in Before : Moved(r, p, run[r].settled)
    BY <1>8, Forms DEF Before
  <2> QED
    BY <2>1, <2>2, <1>4, <1>5, <1>c
<1>9. ASSUME NEW r \in Runs, Execute(r) PROVE Accounted'
  <2> SUFFICES ASSUME NEW k \in Keys PROVE Alone(k)' /\ Counts(k)'
    BY <1>b
  <2>1. Alone(k) /\ Counts(k)
    BY <1>a
  <2>2. PICK p \in After : Moved(r, p, run[r].settled)
    BY <1>9, Forms
  <2>3. r \in Underway(k) <=> Current(r) = k
    BY <1>9 DEF Execute, Active, Underway, Steps
  <2>4. /\ r \in Underway(k)' <=> Current(r) = k
        /\ \A s \in Runs : s # r => (s \in Underway(k)' <=> s \in Underway(k))
        /\ \A s \in Runs : s # r => run'[s] = run[s]
        /\ run'[r].phase = p
    BY <2>2, <1>c, UnderwayMoved
  <2>5. Underway(k)' = Underway(k)
    BY <2>3, <2>4, <1>u
  <2>6. UNCHANGED <<memory, log, up, overlap, lost>> /\ run[r].phase \in Before
    BY <1>9 DEF Execute, Active, Before
  <2>7. Recorded(k)' = Recorded(k)
    BY <2>6 DEF Recorded
  <2>8. PICK acted \in {0, 1} : effects' = [effects EXCEPT ![Current(r)] = @ + acted]
    BY <1>9 DEF Execute
  <2>9. CASE Current(r) # k
    <3>1. effects'[k] = effects[k] /\ r \notin Underway(k)
      BY <2>3, <2>8, <2>9 DEF TypeOK
    <3> QED
      BY <3>1, <2>1, <2>4, <2>5, <2>6, <2>7, <1>u DEF Alone, Counts
  <2>10. CASE Current(r) = k
    <3>1. effects'[k] = effects[k] + acted /\ effects[k] \in Nat
      BY <2>8, <2>10 DEF TypeOK
    <3>2. k \notin overlap => Underway(k) = {r}
      BY <2>1, <2>3, <2>10 DEF Alone
    <3>3. k \notin overlap \cup lost => effects[k] = 0
      BY <2>1, <2>3, <2>6, <2>10 DEF Counts
    <3>4. Alone(k)'
      BY <2>1, <2>5, <2>6 DEF Alone
    <3>5. k \notin overlap \cup lost => effects'[k] <= 1
      BY <3>1, <3>3
    <3> QED
      BY <3>2, <3>4, <3>5, <2>4, <2>5, <2>6, <1>c DEF Counts
  <2> QED
    BY <2>9, <2>10
<1>10. ASSUME NEW r \in Runs, Verify(r) PROVE Accounted'
  <2>1. run[r].phase \in Steps /\ run[r].phase \notin Before
        /\ UNCHANGED <<memory, log, up, effects, overlap, lost>>
    BY <1>10 DEF Verify, Active, Steps, Before
  <2> QED
    BY <2>1, <1>4, <1>10, Forms DEF Steps, Before
<1>11. ASSUME NEW r \in Runs, Record(r) PROVE Accounted'
  <2> SUFFICES ASSUME NEW k \in Keys PROVE Alone(k)' /\ Counts(k)'
    BY <1>b
  <2>1. Alone(k) /\ Counts(k)
    BY <1>a
  <2>2. /\ \A s \in Runs : s # r => (s \in Underway(k)' <=> s \in Underway(k))
        /\ r \notin Underway(k)' /\ \A s \in Runs : s # r => run'[s] = run[s]
    BY <1>11, Forms, UnderwayReported
  <2>3. r \in Underway(k) <=> Current(r) = k
    BY <1>11 DEF Record, Active, Underway, Steps
  <2>4. UNCHANGED <<up, effects, overlap, lost>>
    BY <1>11 DEF Record
  <2>5. Alone(k)'
    BY <2>1, <2>2, <2>4, <1>u DEF Alone
  <2>6. /\ memory' = [memory EXCEPT ![Current(r)] = run[r].outcome]
        /\ log' = [log EXCEPT ![Current(r)] = run[r].outcome]
    BY <1>11 DEF Record
  <2>7. CASE Current(r) # k
    <3>1. Recorded(k)' = Recorded(k) /\ r \notin Underway(k)
      BY <2>3, <2>4, <2>6, <2>7 DEF Recorded, TypeOK
    <3> QED
      BY <3>1, <2>1, <2>2, <2>4, <2>5, <1>u DEF Counts
  <2>8. CASE Current(r) = k
    <3>1. Recorded(k)'
      <4>1. run[r].outcome # "none"
        BY DEF TypeOK, Run, Outcomes
      <4> QED
        BY <4>1, <2>6, <2>8 DEF Recorded, TypeOK
    <3> QED
      BY <3>1, <2>1, <2>2, <2>4, <2>5, <1>u DEF Counts
  <2> QED
    BY <2>7, <2>8
<1>12. ASSUME NEW r \in Runs, RecordFails(r) PROVE Accounted'
  <2> SUFFICES ASSUME NEW k \in Keys PROVE Alone(k)' /\ Counts(k)'
    BY <1>b
  <2>1. Alone(k) /\ Counts(k)
    BY <1>a
  <2>2. /\ \A s \in Runs : s # r => (s \in Underway(k)' <=> s \in Underway(k))
        /\ r \notin Underway(k)' /\ \A s \in Runs : s # r => run'[s] = run[s]
    BY <1>12, Forms, UnderwayReported
  <2>3. r \in Underway(k) <=> Current(r) = k
    BY <1>12 DEF RecordFails, Active, Underway, Steps
  <2>4. UNCHANGED <<memory, up, effects, overlap>> /\ lost' = lost \cup {Current(r)}
    BY <1>12 DEF RecordFails
  <2>5. Alone(k)'
    BY <2>1, <2>2, <2>4, <1>u DEF Alone
  <2>6. log' \in {log, [log EXCEPT ![Current(r)] = run[r].outcome]}
    BY <1>12 DEF RecordFails
  <2>7. CASE Current(r) # k
    <3>1. Recorded(k)' = Recorded(k) /\ r \notin Underway(k)
      BY <2>3, <2>4, <2>6, <2>7 DEF Recorded, TypeOK
    <3> QED
      BY <3>1, <2>1, <2>2, <2>4, <2>5, <2>7, <1>u DEF Counts
  <2>8. CASE Current(r) = k
    BY <2>4, <2>5, <2>8 DEF Counts
  <2> QED
    BY <2>7, <2>8
<1>13. CASE Crash
  <2> SUFFICES ASSUME NEW k \in Keys PROVE Alone(k)' /\ Counts(k)'
    BY <1>b
  <2>1. Alone(k) /\ Counts(k)
    BY <1>a
  <2>2. Underway(k)' = {}
    <3>1. \A r \in Runs : run[r] \in Run
      BY DEF TypeOK
    <3>2. \A r \in Runs : run'[r].phase \notin Steps
      BY <3>1, <1>13 DEF Crash, Run, Steps
    <3> QED
      BY <3>2 DEF Underway
  <2>3. UNCHANGED <<log, effects, overlap>> /\ ~up' /\ lost \subseteq lost'
    BY <1>13 DEF Crash
  <2>4. (\E r \in Underway(k) : run[r].phase \in After) => k \in lost'
    BY <1>13 DEF Crash, After
  <2>5. Recorded(k) => Recorded(k)'
    BY <2>3 DEF Recorded
  <2> QED
    BY <2>1, <2>2, <2>3, <2>4, <2>5 DEF Alone, Counts
<1>14. CASE Boot
  <2> SUFFICES ASSUME NEW k \in Keys PROVE Alone(k)' /\ Counts(k)'
    BY <1>b
  <2>1. Alone(k) /\ Counts(k)
    BY <1>a
  <2>2. UNCHANGED <<run, log, effects, overlap, lost>> /\ memory' = log
    BY <1>14 DEF Boot
  <2>3. Underway(k)' = Underway(k)
    BY <2>2 DEF Underway, Current, Position
  <2>4. Recorded(k) => Recorded(k)'
    BY <2>2 DEF Recorded
  <2> QED
    BY <2>1, <2>2, <2>3, <2>4 DEF Alone, Counts
<1> QED
  BY <1>2, <1>6, <1>7, <1>8, <1>9, <1>10, <1>11, <1>12, <1>13, <1>14
     DEF Next, Approve, CloseApproval, vars

-----------------------------------------------------------------------------
LEMMA InitIInv == Init => IInv
<1> SUFFICES ASSUME Init PROVE IInv
  OBVIOUS
<1>1. \A r \in Runs : /\ run[r].results = <<>> /\ run[r].phase = "new" /\ run[r].settled = {}
                      /\ run[r] = NewRun
  BY DEF Init, NewRun
<1>2. NewRun \in Run
  BY DEF NewRun, Run, Outcomes
<1>3. TypeOK
  <2>1. \A r \in Runs : Len(run[r].results) = 0 /\ run[r].phase \notin Steps
    <3>1. Len(<<>>) = 0 /\ "new" \notin Steps
      BY DEF Steps
    <3> QED
      BY <1>1, <3>1, Zenon
  <2>2. \A r \in Runs : Len(Actions[r]) \in Nat
    <3>1. \A r \in Runs : Actions[r] \in Seq(Keys)
      BY ActionExecutorAssumption
    <3>2. \A q \in Seq(Keys) : Len(q) \in Nat
      OBVIOUS
    <3> QED
      BY <3>1, <3>2
  <2>3. \A r \in Runs : Len(run[r].results) <= Len(Actions[r])
    <3> SUFFICES ASSUME NEW r \in Runs PROVE Len(run[r].results) <= Len(Actions[r])
      OBVIOUS
    <3> DEFINE m == Len(run[r].results)
               n == Len(Actions[r])
    <3>1. m = 0 /\ n \in Nat
      BY <2>1, <2>2
    <3> HIDE DEF m, n
    <3>2. m <= n
      BY <3>1
    <3> QED
      BY <3>2 DEF m, n
  <2>4. run \in [Runs -> Run]
    BY <1>2 DEF Init
  <2>5. /\ memory \in [Keys -> Entry] /\ log \in [Keys -> Entry]
        /\ approval \in [Keys -> {"none", "pending", "approved"}] /\ effects \in [Keys -> Nat]
    BY DEF Init, Empty, Entry
  <2>6. torn \in BOOLEAN /\ up \in BOOLEAN
    BY Zenon DEF Init
  <2>7. granted \subseteq Keys /\ overlap \subseteq Keys /\ lost \subseteq Keys /\ faults \in Nat
    BY DEF Init
  <2> QED
    BY <2>1, <2>3, <2>4, <2>5, <2>6, <2>7 DEF TypeOK
<1>4. Settled = {} /\ \A k : Underway(k) = {}
  BY <1>1 DEF Settled, Underway, Steps
<1>5. Durable
  BY <1>1, <1>4 DEF Init, Durable, ReportedIsDurable, NeverRepeated, Empty, Steps
<1>6. PriorSound
  BY <1>1 DEF PriorSound, StopsAfterFailure, Steps
<1>7. Consent
  BY <1>1, ActionExecutorAssumption DEF Init, Consent, EffectNeedsApproval, Steps
<1>8. Accounted
  BY <1>4 DEF Init, Accounted
<1> QED
  BY <1>3, <1>5, <1>6, <1>7, <1>8 DEF IInv

THEOREM Invariance == Spec => []IInv
<1>1. Init => IInv
  BY InitIInv
<1>2. IInv /\ [Next]_vars => IInv'
  BY TypeStep, DurableStep, PriorStep, ConsentStep, AccountedStep DEF IInv
<1> QED
  BY <1>1, <1>2, PTL DEF Spec

\* Runs, store and approvals stay well typed, for any plans that ValidatePlan
\* accepts.
THEOREM TypeCorrect == Spec => []TypeOK
<1>1. IInv => TypeOK
  BY DEF IInv
<1> QED
  BY <1>1, Invariance, PTL

\* An action acts once for its key, unless runs met on it or its record was
\* lost.  (lookupIdempotency, recordIdempotency)
THEOREM ActsOnce == Spec => []OneEffect
<1>1. IInv => OneEffect
  BY DEF IInv, Accounted, OneEffect
<1> QED
  BY <1>1, Invariance, PTL

\* What is reported as done or replayed is in the file. (RecordActionResult)
THEOREM ReportsAreDurable == Spec => []ReportedIsDurable
<1>1. IInv => ReportedIsDurable
  BY DEF IInv, Durable
<1> QED
  BY <1>1, Invariance, PTL

\* A later run never carries out what was reported as done, whatever crashed.
\* (lookupIdempotency, loadFromDisk)
THEOREM RepeatsNothing == Spec => []NeverRepeated
<1>1. IInv => NeverRepeated
  BY DEF IInv, Durable
<1> QED
  BY <1>1, Invariance, PTL

\* Behind a failed action of a run nothing is carried out. (priorFailure)
THEOREM FailureStops == Spec => []StopsAfterFailure
<1>1. IInv => StopsAfterFailure
  BY DEF IInv, PriorSound
<1> QED
  BY <1>1, Invariance, PTL

\* No gated action acts before an operator has approved it. (requestApproval)
THEOREM ApprovalComesFirst == Spec => []EffectNeedsApproval
<1>1. IInv => EffectNeedsApproval
  BY DEF IInv, Consent
<1> QED
  BY <1>1, Invariance, PTL
=============================================================================
