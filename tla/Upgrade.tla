------------------------------- MODULE Upgrade -------------------------------
(***************************************************************************)
(* The daemon's upgrade service (upgrade/service.go, io.go): one upgrade   *)
(* at a time, driven through fetch, verify, backup, stop, install, start   *)
(* and check by a request that may be cancelled at any point (the HTTP     *)
(* handler passes the request's own context down).  The service process    *)
(* may crash between any two steps; files and the systemd unit stay.       *)
(***************************************************************************)
EXTENDS Integers, Sequences, SequencesExt, FiniteSets

-----------------------------------------------------------------------------
(* What release/verification.go decides about a downloaded release.  The     *)
(* cryptography is abstract: a bundle says which of its checks come out.     *)

\* DefaultMinimumSLSALevel, used when the manifest asks for none.
DefaultLevel == 2

\* A release as the verifier tells it apart: keys are the trusted keys in
\* order, [named |-> id and identity are the manifest's, verifies |-> BOOLEAN];
\* agrees says commit, builder and workflow are the manifest's; packages and
\* cves are sets of [name, version(, severity, id)], "" a version left open.
Severities == {"low", "medium", "high", "critical"}
Blocking(s) == s \in {"high", "critical"}

\* As a bug would have it: any key of the ring will do.
SignedByAny(b) == b.sized /\ \E i \in DOMAIN b.keys: b.keys[i].verifies
\* The first trusted key of that name decides alone; a later one of the same
\* name is never tried.
Signed(b) ==
  b.sized /\ \E i \in DOMAIN b.keys: /\ b.keys[i].named /\ b.keys[i].verifies
                                    /\ \A j \in 1..i - 1: ~b.keys[j].named

Attested(b) ==
  /\ b.parsed /\ b.agrees /\ b.subject
  /\ b.level >= (IF b.minLevel = 0 THEN DefaultLevel ELSE b.minLevel)
  /\ b.requireReproducible # "no" => b.reproducible

Listed(b) == b.packages # {} /\ \A p \in b.packages: p.version # ""

\* The checks whose failure only an override can pass.
Fatal(b) == ~(b.matches /\ Signed(b) /\ Attested(b) /\ Listed(b))

\* Findings the policy stops at: the SBOM's own, and the database's for a
\* package listed in the SBOM.
Findings(b) ==
  {v.id: v \in {w \in b.reported: Blocking(w.severity)}} \cup
  {c.id: c \in {d \in b.cves: /\ Blocking(d.severity)
                              /\ \E p \in b.packages: /\ p.name = d.name
                                                      /\ d.version \in {"", p.version}}}

\* Verify: the status, and the audit event it must have written first.
\* recorded is whether the audit sink takes the event.
Verdict(b, override, acknowledged, recorded) ==
  CASE ~b.manifest -> [status |-> "error", audit |-> "none"]
    [] b.manifest /\ Fatal(b) ->
         IF override /\ recorded THEN [status |-> "override", audit |-> "override"]
                                 ELSE [status |-> "error", audit |-> "none"]
    [] OTHER ->
         IF ~b.database THEN [status |-> "error", audit |-> "none"]
         ELSE IF Findings(b) = {} THEN [status |-> "verified", audit |-> "none"]
         ELSE IF acknowledged /\ recorded THEN [status |-> "warning", audit |-> "acknowledged"]
         ELSE [status |-> "error", audit |-> "none"]

\* As a bug would have it: one larger part is enough.
AtLeastSomewhere(current, minimum) ==
  current = minimum \/ \E i \in DOMAIN current: i \notin DOMAIN minimum \/ current[i] > minimum[i]

\* versionAtLeast on dotted numbers: missing parts count as zero.
AtLeast(current, minimum) ==
  LET part(v, i) == IF i <= Len(v) THEN v[i] ELSE 0
      n == IF Len(current) > Len(minimum) THEN Len(current) ELSE Len(minimum)
      differ == {i \in 1..n: part(current, i) # part(minimum, i)}
      first == CHOOSE i \in differ: \A j \in differ: i <= j
  IN  differ = {} \/ part(current, first) > part(minimum, first)

\* checkCompatibility; an empty version, on either side, asks for nothing.
Compatible(b, desktop) ==
  b.minDesktop = <<>> \/ desktop = <<>> \/ AtLeast(desktop, b.minDesktop)

-----------------------------------------------------------------------------
(* The upgrade itself. *)

CONSTANTS Releases, Facts, Old, Nothing, Desktop,
          MaxWrites, MaxFaults, MaxRequests

\* Levels are numbers; the binary of before is none of the releases.
UpgradeConstants ==
  /\ Old \notin Releases /\ Nothing \notin Releases \cup {Old} /\ MaxWrites \in Nat
  /\ \A r \in Releases: Facts[r].level \in Int /\ Facts[r].minLevel \in Int

VARIABLES state,   \* Service.state: [phase, mode, busy]
          job,     \* the upgrade under way, its locals
          files,   \* [binary, db, inventory] on the host; db stands for the
                   \* database and the configuration files
          unit,    \* is the systemd unit running, and which binary
          audits,  \* upgrade audit events written, a set of <<action, release>>
          spent    \* [faults, requests]: what the bounds have used

vars == <<state, job, files, unit, audits, spent>>

Phases == {"idle", "fetching", "verifying", "backing_up", "stopping", "installing",
           "starting", "checking", "rolling_back", "restoring", "restarting",
           "succeeded", "failed", "rolled_back"}
Fresh == [phase |-> "idle", mode |-> "normal", busy |-> FALSE]
NoJob == [release |-> Nothing, override |-> FALSE, acknowledged |-> FALSE, gone |-> FALSE,
          verdict |-> "none", backup |-> Nothing, before |-> Nothing, errors |-> FALSE]

\* A step's outcome: a cancelled context fails it, and so may the host.
Outcomes == (IF job.gone THEN {} ELSE {TRUE}) \cup
            (IF job.gone \/ spent.faults < MaxFaults THEN {FALSE} ELSE {})
Spend(ok) == spent' = [spent EXCEPT !.faults = @ + (IF ok \/ job.gone THEN 0 ELSE 1)]
Phase(p) == state' = [state EXCEPT !.phase = p]

\* finish: only a rollback that failed leaves the daemon read-only.
Finish(p, keep) ==
  state' = [phase |-> p, mode |-> IF keep THEN "read_only" ELSE "normal", busy |-> FALSE]

\* fail, with its audit event.
Fail == /\ Finish("failed", FALSE)
        /\ audits' = audits \cup {<<"failed", job.release>>}

\* Upgrade's begin: refused while another one is under way.
Begin == /\ ~state.busy /\ spent.requests < MaxRequests
         /\ \E o, a \in BOOLEAN:
              job' = [NoJob EXCEPT !.override = o, !.acknowledged = a, !.before = files]
         /\ state' = [phase |-> "fetching", mode |-> "read_only", busy |-> TRUE]
         /\ spent' = [spent EXCEPT !.requests = @ + 1]
         /\ audits' = audits \cup {<<"started", Nothing>>}
         /\ UNCHANGED <<files, unit>>

\* The client goes away: r.Context() is cancelled for the rest of the upgrade.
Cancel == /\ state.busy /\ ~job.gone
          /\ job' = [job EXCEPT !.gone = TRUE]
          /\ UNCHANGED <<state, files, unit, audits, spent>>

Fetch == /\ state.busy /\ state.phase = "fetching"
         /\ \E ok \in Outcomes:
              /\ Spend(ok)
              /\ IF ok THEN /\ \E r \in Releases: job' = [job EXCEPT !.release = r]
                            /\ Phase("verifying") /\ UNCHANGED audits
                       ELSE Fail /\ UNCHANGED job
         /\ UNCHANGED <<files, unit>>

\* Verify, the audit of an override and the compatibility check; recorded is
\* whether the audit sinks take the events.
VerifyRelease ==
  /\ state.busy /\ state.phase = "verifying"
  /\ \E recorded \in {TRUE} \cup (IF spent.faults < MaxFaults THEN {FALSE} ELSE {}):
       LET b == Facts[job.release]
           v == Verdict(b, job.override, job.acknowledged, recorded).status
           go == v # "error" /\ Compatible(b, Desktop)
       IN /\ spent' = [spent EXCEPT !.faults = @ + (IF recorded THEN 0 ELSE 1)]
          /\ job' = [job EXCEPT !.verdict = v]
          /\ IF go THEN Phase("backing_up") ELSE Finish("failed", FALSE)
          /\ audits' = audits \cup
               (IF v = "override" THEN {<<"override", job.release>>} ELSE {}) \cup
               (IF go THEN {} ELSE {<<"failed", job.release>>})
  /\ UNCHANGED <<files, unit>>

\* As a bug would have it: the backup is taken of what is being installed.
BackupTooLate == /\ state.busy /\ state.phase = "backing_up"
                 /\ job' = [job EXCEPT !.backup = [files EXCEPT !.binary = job.release]]
                 /\ Phase("stopping")
                 /\ UNCHANGED <<files, unit, audits, spent>>
\* FileBackupStore.Backup: what is absent is recorded as absent; the service
\* is still running.
Backup == /\ state.busy /\ state.phase = "backing_up"
          /\ \E ok \in Outcomes:
               /\ Spend(ok)
               /\ IF ok THEN /\ job' = [job EXCEPT !.backup = files]
                             /\ Phase("stopping") /\ UNCHANGED audits
                        ELSE Fail /\ UNCHANGED job
          /\ UNCHANGED <<files, unit>>


\* systemctl under a timeout: one that fails for a live context may have done
\* its work all the same.
Systemctl(ok, target) ==
  unit' \in (IF ok THEN {target} ELSE IF job.gone THEN {unit} ELSE {unit, target})

Stop == /\ state.busy /\ state.phase = "stopping"
        /\ \E ok \in Outcomes:
             /\ Spend(ok) /\ Systemctl(ok, Nothing)
             /\ IF ok THEN Phase("installing") /\ UNCHANGED audits ELSE Fail
        /\ UNCHANGED <<job, files>>

\* FileInstaller.Install: the binary, then the inventory; the second may fail
\* with the first done.
Install ==
  /\ state.busy /\ state.phase = "installing"
  /\ \E ok \in Outcomes:
       /\ Spend(ok)
       /\ files' \in
            IF ok THEN {[files EXCEPT !.binary = job.release, !.inventory = job.release]}
            ELSE IF job.gone THEN {files}
            ELSE {files, [files EXCEPT !.binary = job.release]}
       /\ Phase(IF ok THEN "starting" ELSE "rolling_back")
  /\ UNCHANGED <<job, unit, audits>>

Start == /\ state.busy /\ state.phase = "starting"
         /\ \E ok \in Outcomes:
              /\ Spend(ok) /\ Systemctl(ok, files.binary)
              /\ Phase(IF ok THEN "checking" ELSE "rolling_back")
         /\ UNCHANGED <<job, files, audits>>

Check == /\ state.busy /\ state.phase = "checking"
         /\ \E ok \in Outcomes:
              /\ Spend(ok)
              /\ IF ok THEN /\ Finish("succeeded", FALSE)
                            /\ audits' = audits \cup {<<"succeeded", job.release>>}
                       ELSE Phase("rolling_back") /\ UNCHANGED audits
         /\ UNCHANGED <<job, files, unit>>

\* rollback: stop, restore and start are each tried whatever the others did.
RollbackStop ==
  /\ state.busy /\ state.phase = "rolling_back"
  /\ \E ok \in Outcomes: /\ Spend(ok) /\ Systemctl(ok, Nothing)
                         /\ job' = [job EXCEPT !.errors = @ \/ ~ok]
  /\ Phase("restoring")
  /\ UNCHANGED <<files, audits>>

\* Restore copies the binary back, then the rest; the inventory is not part
\* of a backup, and a file that was absent is left as it is.
RollbackRestore ==
  /\ state.busy /\ state.phase = "restoring"
  /\ \E ok \in Outcomes:
       LET binary == [files EXCEPT !.binary = IF job.backup.binary = Nothing THEN @
                                              ELSE job.backup.binary]
       IN /\ Spend(ok)
          /\ files' \in IF ok THEN {[binary EXCEPT !.db = job.backup.db]}
                        ELSE IF job.gone THEN {files} ELSE {files, binary}
          /\ job' = [job EXCEPT !.errors = @ \/ ~ok]
  /\ Phase("restarting")
  /\ UNCHANGED <<unit, audits>>

\* As a bug would have it: only the last of the three errors is kept.
RollbackStartForgets ==
  /\ state.busy /\ state.phase = "restarting"
  /\ \E ok \in Outcomes:
       /\ Spend(ok) /\ Systemctl(ok, files.binary)
       /\ Finish(IF ok THEN "rolled_back" ELSE "failed", ~ok)
  /\ UNCHANGED <<files, job, audits>>
RollbackStart ==
  /\ state.busy /\ state.phase = "restarting"
  /\ \E ok \in Outcomes:
       /\ Spend(ok) /\ Systemctl(ok, files.binary)
       /\ IF ok /\ ~job.errors
          THEN /\ Finish("rolled_back", FALSE)
               /\ audits' = audits \cup {<<"rolled_back", job.release>>}
          ELSE /\ Finish("failed", TRUE)
               /\ audits' = audits \cup {<<"failed", job.release>>}
       /\ job' = [job EXCEPT !.errors = @ \/ ~ok]
  /\ UNCHANGED files


\* The daemon writes its database as long as the unit runs; the service's read-only mode is
\* a state it reports and no writer of the daemon asks for it.
Write == /\ unit # Nothing /\ files.db < MaxWrites
         /\ files' = [files EXCEPT !.db = @ + 1]
         /\ UNCHANGED <<state, job, unit, audits, spent>>

\* The process running the service dies; NewService starts idle and normal.
Crash == /\ state.busy /\ spent.faults < MaxFaults
         /\ state' = Fresh /\ job' = NoJob
         /\ spent' = [spent EXCEPT !.faults = @ + 1]
         /\ UNCHANGED <<files, unit, audits>>

Init == /\ state = Fresh /\ job = NoJob
        /\ files \in [binary: {Old}, db: {0}, inventory: {Nothing, Old}]
        /\ unit = Old /\ audits = {} /\ spent = [faults |-> 0, requests |-> 0]

Next == \/ Begin \/ Cancel \/ Fetch \/ VerifyRelease \/ Backup \/ Stop \/ Install \/ Start \/ Check
        \/ RollbackStop \/ RollbackRestore \/ RollbackStart \/ Write \/ Crash
Spec == Init /\ [][Next]_vars

----------------------------------------------------------------------------
UpgradeTypeOK ==
  /\ state \in [phase: Phases, mode: {"normal", "read_only"}, busy: BOOLEAN]
  /\ files \in [binary: {Old} \cup Releases, db: 0..MaxWrites, inventory: {Nothing, Old} \cup Releases]
  /\ unit \in {Nothing, Old} \cup Releases

\* What the upgrade doc's refuse-install table asks of a release.
Trusted(b) ==
  /\ b.manifest /\ b.matches /\ b.sized
  /\ \E i \in DOMAIN b.keys: b.keys[i].named /\ b.keys[i].verifies
  /\ b.parsed /\ b.agrees /\ b.subject /\ b.level >= b.minLevel
  /\ b.packages # {}

\* A release runs only if it is trusted, or an override was written to the audit log before
\* (refuse-install table of the upgrade doc), whatever failed, was cancelled or crashed.
OnlyTrustedRuns ==
  unit \in Releases => Trusted(Facts[unit]) \/ <<"override", unit>> \in audits

\* A rollback that is reported as done has put back the binary the upgrade
\* found, and the unit runs it: an error of any of its three steps shows.
RolledBackIsWhole ==
  state.phase = "rolled_back" =>
    files.binary = job.before.binary /\ unit = job.before.binary

\* No binary is installed that the desktop in use is too old for: dotted
\* versions ordered as numbers of three digits.
Number(v) == FoldLeftDomain(LAMBDA n, i: n + v[i] * 10^(3 - i), 0, v)
InstalledIsCompatible ==
  files.binary \in Releases => Number(Desktop) >= Number(Facts[files.binary].minDesktop)
=============================================================================
