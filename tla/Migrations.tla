------------------------------ MODULE Migrations ------------------------------
(***************************************************************************)
(* The migration runner and its file backups (migrations/runner.go,        *)
(* backup.go).  A start of the daemon runs every pending migration: back   *)
(* the file up, apply it in a transaction, record it, commit; whatever     *)
(* fails is rolled back and, past the pre-check, restored from the backup. *)
(* A failed run is tried again by the next start.                          *)
(***************************************************************************)
EXTENDS Integers, Sequences, SequencesExt, FiniteSets

CONSTANTS Latest,      \* migrations registered: 1..Latest
          KeepRecent, MaxStarts, MaxFaults, NoFile

\* A backuper that prunes keeps a file at least; versions are numbers.
MigrationsConstants == /\ Latest \in Nat /\ KeepRecent \in Nat \ {0}
                       /\ MaxStarts \in Nat /\ MaxFaults \in Nat /\ NoFile \notin Int

VARIABLES fate,     \* what a migration does: "applies", or is "refused" by its
                    \* PreCheck, or is "broken" in Up or PostCheck; never changes
          db,       \* the file at the live path: its schema version, or NoFile
          pc, current, taken,  \* Run: its place, its version, its backup
          backups,  \* backup files, oldest first: [version, id]
          spent,    \* [starts, faults, copies]
          unrestored      \* a restore failed or was cut off

vars == <<fate, db, pc, current, taken, backups, spent, unrestored>>

Bk(v) == [version |-> v, id |-> spent.copies]

\* As a bug would have it: the newest go first.
PrunedBackwards(s) == IF Len(s) > KeepRecent THEN SubSeq(s, 1, KeepRecent) ELSE s
\* prune: only the KeepRecent newest files stay.
Pruned(s) == IF Len(s) > KeepRecent THEN SubSeq(s, Len(s) - KeepRecent + 1, Len(s)) ELSE s


Stopped == pc' = "stopped" /\ UNCHANGED <<current, taken>>

\* Run, up to the list of pending migrations; the meta table is made if absent
\* (CurrentVersion), so the file exists from here on.
Run == /\ pc = "stopped" /\ spent.starts < MaxStarts
       /\ spent' = [spent EXCEPT !.starts = @ + 1]
       /\ db' = IF db = NoFile THEN 0 ELSE db
       /\ current' = db'
       /\ pc' = IF db' < Latest THEN "backup" ELSE "serving"
       /\ UNCHANGED <<fate, taken, backups, unrestored>>

\* As a bug would have it: the file is copied once, at the first migration.
BackupOnce == /\ pc = "backup"
              /\ taken' = IF backups = <<>> THEN Bk(current) ELSE Last(backups)
              /\ backups' = IF backups = <<>> THEN <<taken'>> ELSE backups
              /\ pc' = "apply" /\ UNCHANGED <<fate, current, db, unrestored, spent>>
\* Backup: copy to a temporary, rename, then prune -- before the migration is
\* tried.  A failed copy removes its temporary and stops the run.
Backup == /\ pc = "backup"
          /\ \/ /\ taken' = Bk(current)
                /\ backups' = Pruned(Append(backups, taken'))
                /\ pc' = "apply" /\ UNCHANGED current
                /\ spent' = [spent EXCEPT !.copies = @ + 1]
             \/ /\ spent.faults < MaxFaults
                /\ spent' = [spent EXCEPT !.faults = @ + 1]
                /\ Stopped /\ UNCHANGED backups
          /\ UNCHANGED <<fate, db, unrestored>>


\* As a bug would have it: a failed commit is not restored.
AppliedUnrestored ==
  LET next == current + 1
  IN \/ /\ fate[next] = "applies"
        /\ db' = next /\ current' = next
        /\ pc' = IF next < Latest THEN "backup" ELSE "serving"
        /\ UNCHANGED <<taken, spent>>
     \/ /\ spent.faults < MaxFaults
        /\ db' \in {current, next}
        /\ spent' = [spent EXCEPT !.faults = @ + 1]
        /\ Stopped
\* PreCheck, Up, PostCheck, the meta row and the commit.  The transaction
\* undoes what it did; a failed commit may leave either state.
Applied ==
  LET next == current + 1
      fault == spent.faults < MaxFaults
  IN \/ /\ fate[next] = "applies"
        /\ db' = next /\ current' = next
        /\ pc' = IF next < Latest THEN "backup" ELSE "serving"
        /\ UNCHANGED <<taken, spent>>
     \/ /\ fate[next] = "refused"
        /\ Stopped /\ UNCHANGED <<db, spent>>
     \/ /\ fate[next] = "broken"
        /\ pc' = "restore" /\ UNCHANGED <<db, current, taken, spent>>
     \/ /\ fate[next] = "applies" /\ fault
        /\ db' \in {current, next}
        /\ spent' = [spent EXCEPT !.faults = @ + 1]
        /\ pc' = "restore" /\ UNCHANGED <<current, taken>>
Apply == pc = "apply" /\ Applied /\ UNCHANGED <<fate, backups, unrestored>>


\* Restore: a copy renamed over the live path, so it is there whole or not.
Restore == /\ pc = "restore"
           /\ \/ db' = taken.version /\ UNCHANGED <<spent, unrestored>>
              \/ /\ spent.faults < MaxFaults
                 /\ spent' = [spent EXCEPT !.faults = @ + 1]
                 /\ unrestored' = TRUE /\ UNCHANGED db
           /\ Stopped /\ UNCHANGED <<fate, backups>>

\* The process dies anywhere; the database's journal takes back a transaction
\* that had not been committed.
Crash == /\ pc \in {"backup", "apply", "restore", "serving"} /\ spent.faults < MaxFaults
         /\ spent' = [spent EXCEPT !.faults = @ + 1]
         /\ unrestored' = (unrestored \/ pc = "restore")
         /\ Stopped /\ UNCHANGED <<fate, db, backups>>

Init == /\ fate \in [1..Latest -> {"applies", "refused", "broken"}]
        /\ db \in {NoFile} \cup 0..Latest
        /\ pc = "stopped" /\ current = 0 /\ taken = [version |-> 0, id |-> 0]
        /\ backups = <<>> /\ unrestored = FALSE
        /\ spent = [starts |-> 0, faults |-> 0, copies |-> 1]
Next == Run \/ Backup \/ Apply \/ Restore \/ Crash
Spec == Init /\ [][Next]_vars

----------------------------------------------------------------------------
MigrationsTypeOK ==
  /\ db \in {NoFile} \cup 0..Latest /\ current \in 0..Latest
  /\ pc \in {"stopped", "backup", "apply", "restore", "serving"}
  /\ Len(backups) <= KeepRecent

\* A run that failed leaves the file at the version of the last migration it
\* had committed (comment of Run: roll back, restore, return), except where
\* the restore itself was what failed or was cut off.
FailureUndone == (pc = "stopped" /\ spent.starts > 0 /\ ~unrestored) => db = current

\* While a migration is being applied, its rollback target is among the files
\* kept, whatever has been pruned.
TargetKept == pc \in {"apply", "restore"} => /\ taken \in ToSet(backups)
                                             /\ taken.version = current

\* The schema only moves forward, one migration at a time, except for a
\* restore to the version before it.
OneStepAtATime ==
  (db # NoFile /\ db' # db) => (db' = db + 1 \/ (db' = db - 1 /\ pc = "restore"))
=============================================================================
