----------------------------- MODULE HostProofs -----------------------------
(***************************************************************************)
(* Proofs about the services around the host: what leaves the audit log    *)
(* and what is written to it, what the migration runner leaves behind, what*)
(* the git watcher tells and the clones keep of it, what the privileged    *)
(* helper runs, what the desktop connects to, shows of its tunnel and      *)
(* clears away after it, which servers it rents, which releases are        *)
(* installed, and what becomes of a hook of the user's.                    *)
(*                                                                         *)
(* AuditExport.  Inv is inductive: consuming an approval revokes it, and   *)
(* what is revoked is consumed by nobody else.                             *)
(***************************************************************************)
EXTENDS AuditExport, Integers, Sequences, FiniteSetTheorems, TLAPS

\* What was looked at is an approval for an export, and nothing has been consumed yet.
Looked(r) ==
    request[r].phase \in {"validate", "consume"} =>
       /\ request[r].approval \in Approvals /\ request[r].consumed = Nothing
       /\ request[r].phase = "consume" => /\ approval[request[r].approval].export
                                          /\ approval[request[r].approval].critical
\* A wide slice that goes on has consumed one.
Allowed(r) ==
    request[r].phase \in {"start", "query", "complete", "sent"} /\ RequiresApproval(request[r].query) =>
       /\ request[r].consumed \in Approvals
       /\ approval[request[r].consumed].export /\ approval[request[r].consumed].critical
\* Consuming revokes, and what is revoked stays so: nobody else consumes it.
Spent(r) == request[r].consumed \in Approvals => approval[request[r].consumed].state = "revoked"
Own(r, s) == request[r].consumed \in Approvals /\ request[s].consumed = request[r].consumed => r = s
Inv ==
    /\ ExportTypeOK
    /\ \A r \in Requests : Looked(r) /\ Allowed(r) /\ Spent(r)
    /\ \A r, s \in Requests : Own(r, s)
    /\ SliceIsRecorded

\* Inv is inductive (api/audit.go, handleAuditExport).
LEMMA InvInit == ASSUME Nothing \notin Approvals PROVE Init => Inv
  <1> SUFFICES ASSUME Nothing \notin Approvals, Init PROVE Inv
      OBVIOUS
  <1>1. ExportTypeOK
    <2>1. Exports \cup Others \subseteq Approval
      <3>1. \A x \in Exports : x \in Approval
        BY 0 \in Nat, Zenon DEF Exports, Approval
      <3>2. \A x \in Others : x \in Approval
        BY 0 \in Nat, Zenon DEF Others, Approval
      <3>3. QED
        BY <3>1, <3>2
    <2>2. Idle \in Request
      BY DEF Idle, Request, Phases
    <2>3. QED
      BY <2>1, <2>2 DEF Init, ExportTypeOK
  <1>2. QED
    BY <1>1 DEF Init, Inv, Looked, Allowed, Spent, Own, SliceIsRecorded, Idle

LEMMA InvNext == ASSUME Nothing \notin Approvals PROVE Inv /\ [Next]_vars => Inv'
  <1> SUFFICES ASSUME Nothing \notin Approvals, Inv, [Next]_vars PROVE Inv'
      OBVIOUS
  <1>1. ASSUME NEW r \in Requests, NEW q \in SomeQueries, NEW a \in Approvals \cup {Nothing}, Ask(r, q, a)
        PROVE Inv'
    BY <1>1 DEF Ask, Idle, Inv, ExportTypeOK, Looked, Allowed, Spent, Own, SliceIsRecorded, Request, Phases, RequiresApproval
  <1>2. ASSUME NEW r \in Requests, Validate(r) PROVE Inv'
    BY <1>2 DEF Validate, Go, Covers, Inv, ExportTypeOK, Looked, Allowed, Spent, Own, SliceIsRecorded, Request, Phases
  <1>3. ASSUME NEW r \in Requests, Consume(r) PROVE Inv'
    <2> PICK a : a = request[r].approval
      OBVIOUS
    <2>1. CASE approval[a].state = "approved"
      <3>1. /\ a \in Approvals /\ request[r].consumed = Nothing
            /\ approval[a].export /\ approval[a].critical
        BY <1>3 DEF Consume, Inv, Looked
      <3>2. /\ request' = [request EXCEPT ![r] = [@ EXCEPT !.phase = "start", !.consumed = a]]
            /\ approval' = [approval EXCEPT ![a].state = "revoked"]
            /\ log' = log
        BY <1>3, <2>1 DEF Consume
      <3>3. \A s \in Requests \ {r} : request'[s] = request[s]
        BY <3>2 DEF Inv, ExportTypeOK
      <3>4. \A b \in Approvals \ {a} : approval'[b] = approval[b]
        BY <3>1, <3>2 DEF Inv, ExportTypeOK
      <3>5. ExportTypeOK'
        <4>1. request[r] \in Request /\ approval[a] \in Approval
          BY <3>1 DEF Inv, ExportTypeOK
        <4>2. [request[r] EXCEPT !.phase = "start", !.consumed = a] \in Request
          BY <3>1, <4>1 DEF Request, Phases
        <4>3. [approval[a] EXCEPT !.state = "revoked"] \in Approval
          BY <4>1 DEF Approval
        <4>4. now' = now
          BY <1>3 DEF Consume
        <4>5. QED
          BY <3>1, <3>2, <4>2, <4>3, <4>4 DEF Inv, ExportTypeOK
      <3>6. \A s \in Requests \ {r} : request[s].consumed # a
        BY <2>1, <3>1 DEF Inv, Spent
      <3>7. /\ request'[r].phase = "start" /\ request'[r].consumed = a
            /\ request'[r].query = request[r].query
            /\ approval'[a].state = "revoked"
            /\ approval'[a].export /\ approval'[a].critical
        BY <3>1, <3>2 DEF Inv, ExportTypeOK, Request, Approval
      <3>8. ASSUME NEW s \in Requests PROVE Looked(s)' /\ Allowed(s)' /\ Spent(s)'
        <4>1. CASE s = r
          BY <3>7, <4>1, <3>1 DEF Looked, Allowed, Spent
        <4>2. CASE s # r
          BY <3>1, <3>3, <3>4, <3>6, <3>7, <4>2 DEF Inv, Looked, Allowed, Spent
        <4>3. QED
          BY <4>1, <4>2
      <3>9. \A s, t \in Requests : Own(s, t)'
        BY <3>1, <3>3, <3>6, <3>7 DEF Inv, Own
      <3>10. SliceIsRecorded'
        BY <3>2, <3>3, <3>7 DEF Inv, SliceIsRecorded
      <3>11. QED
        BY <3>5, <3>8, <3>9, <3>10 DEF Inv
    <2>2. CASE approval[a].state # "approved"
      BY <1>3, <2>2 DEF Consume, Go, Inv, ExportTypeOK, Looked, Allowed, Spent, Own, SliceIsRecorded, Request, Phases
    <2>3. QED
      BY <2>1, <2>2
  <1>4. ASSUME NEW r \in Requests, Started(r) PROVE Inv'
    BY <1>4 DEF Started, Go, Record, Inv, ExportTypeOK, Looked, Allowed, Spent, Own, SliceIsRecorded, Request, Phases, RequiresApproval
  <1>5. ASSUME NEW r \in Requests, QueryLog(r) PROVE Inv'
    BY <1>5 DEF QueryLog, Go, Record, Inv, ExportTypeOK, Looked, Allowed, Spent, Own, SliceIsRecorded, Request, Phases, RequiresApproval
  <1>6. ASSUME NEW r \in Requests, Complete(r) PROVE Inv'
    BY <1>6 DEF Complete, Go, Record, Inv, ExportTypeOK, Looked, Allowed, Spent, Own, SliceIsRecorded, Request, Phases, RequiresApproval
  <1>7. ASSUME NEW a \in Approvals, NEW v \in {"approved", "denied", "revoked"}, Decide(a, v) PROVE Inv'
    <2>1. /\ approval[a].state = "pending"
          /\ \A b \in Approvals \ {a} : approval'[b] = approval[b]
          /\ approval'[a].export = approval[a].export
          /\ approval'[a].critical = approval[a].critical
      BY <1>7 DEF Decide, Inv, ExportTypeOK, Approval
    <2>2. request' = request /\ log' = log
      BY <1>7 DEF Decide
    <2>3. \A r \in Requests : Spent(r)'
      BY <2>1, <2>2 DEF Inv, Spent
    <2>4. ExportTypeOK'
      BY <1>7 DEF Decide, Inv, ExportTypeOK, Approval
    <2>5. \A r \in Requests : Looked(r)' /\ Allowed(r)'
      BY <2>1, <2>2 DEF Inv, Looked, Allowed, RequiresApproval
    <2>6. QED
      BY <2>2, <2>3, <2>4, <2>5 DEF Inv, Own, SliceIsRecorded
  <1>8. CASE Pass
    BY <1>8 DEF Pass, Inv, ExportTypeOK, Looked, Allowed, Spent, Own, SliceIsRecorded, RequiresApproval
  <1>9. CASE UNCHANGED vars
    BY <1>9 DEF vars, Inv, ExportTypeOK, Looked, Allowed, Spent, Own, SliceIsRecorded, RequiresApproval
  <1>10. QED
    BY <1>1, <1>2, <1>3, <1>4, <1>5, <1>6, <1>7, <1>8, <1>9 DEF Next

\* Whatever requests interleave, a wide slice leaves with an approval of its own, which a user
\* gave for an export, and no slice leaves unrecorded (api/audit.go, handleAuditExport).
THEOREM ExportsAreApproved ==
    ASSUME Nothing \notin Approvals PROVE Spec => [](WideSliceIsApproved /\ SliceIsRecorded)
  <1> SUFFICES ASSUME Nothing \notin Approvals PROVE Spec => [](WideSliceIsApproved /\ SliceIsRecorded)
      OBVIOUS
  <1>1. Inv => WideSliceIsApproved /\ SliceIsRecorded
    BY DEF Inv, WideSliceIsApproved, Allowed, Own
  <1>2. QED
    BY <1>1, InvInit, InvNext, PTL DEF Spec

-----------------------------------------------------------------------------
(* Migrations.  Between two migrations the file is at the version that Run *)
(* believes in; while one is applied or undone, the copy taken before it   *)
(* is the newest of the files kept.                                        *)

CONSTANTS Latest, KeepRecent, MaxStarts, MaxFaults, NoFile
VARIABLES fate, db, pc, current, taken, backups, spent, unrestored
Schema == INSTANCE Migrations

Copy == [version : 0 .. Latest, id : Nat]
SchemaTypes ==
    /\ fate \in [1 .. Latest -> {"applies", "refused", "broken"}]
    /\ db \in {NoFile} \cup 0 .. Latest /\ current \in 0 .. Latest
    /\ pc \in {"stopped", "backup", "apply", "restore", "serving"}
    /\ taken \in Copy /\ unrestored \in BOOLEAN
    /\ spent \in [starts : Nat, faults : Nat, copies : Nat]
SchemaInv ==
    /\ SchemaTypes
    /\ backups \in Seq(Copy) /\ Len(backups) <= KeepRecent
    /\ pc \in {"backup", "apply", "serving"} => db = current
    /\ pc \in {"backup", "apply", "restore"} => current < Latest
    /\ pc = "restore" => db \in {current, current + 1}
    /\ pc \in {"apply", "restore"} => taken.version = current /\ \E i \in DOMAIN backups : backups[i] = taken
    /\ Schema!FailureUndone

\* What prune leaves ends with the file that was just written.
LEMMA NewestIsKept ==
    ASSUME Schema!MigrationsConstants, NEW s \in Seq(Copy), NEW c \in Copy, Len(s) <= KeepRecent
    PROVE  LET p == Schema!Pruned(Append(s, c))
           IN  p \in Seq(Copy) /\ Len(p) <= KeepRecent /\ \E i \in DOMAIN p : p[i] = c
<1> DEFINE t == Append(s, c)
           p == Schema!Pruned(t)
<1>1. t \in Seq(Copy) /\ Len(t) = Len(s) + 1 /\ t[Len(t)] = c
  OBVIOUS
<1>2. CASE Len(t) <= KeepRecent
  <2>1. p = t
    BY <1>1, <1>2 DEF Schema!Pruned, Schema!MigrationsConstants
  <2> QED
    BY <1>1, <1>2, <2>1
<1>3. CASE Len(t) > KeepRecent
  <2>1. p = SubSeq(t, Len(t) - KeepRecent + 1, Len(t))
    BY <1>1, <1>3 DEF Schema!Pruned, Schema!MigrationsConstants
  <2>2. p \in Seq(Copy) /\ Len(p) = KeepRecent
    BY <1>1, <1>3, <2>1 DEF Schema!MigrationsConstants
  <2>3. KeepRecent \in DOMAIN p /\ p[KeepRecent] = t[Len(t)]
    BY <1>1, <1>3, <2>1, <2>2 DEF Schema!MigrationsConstants
  <2> QED
    BY <1>1, <2>2, <2>3 DEF Schema!MigrationsConstants
<1> QED
  BY <1>1, <1>2, <1>3 DEF Schema!MigrationsConstants

LEMMA SchemaInit == ASSUME Schema!MigrationsConstants PROVE Schema!Init => SchemaInv
<1> SUFFICES ASSUME Schema!MigrationsConstants, Schema!Init PROVE SchemaInv
  OBVIOUS
<1>1. SchemaTypes
  <2>1. taken \in Copy
    BY DEF Schema!Init, Schema!MigrationsConstants, Copy
  <2>2. spent \in [starts : Nat, faults : Nat, copies : Nat]
    BY DEF Schema!Init
  <2>3. unrestored \in BOOLEAN
    BY Zenon DEF Schema!Init
  <2> QED
    BY <2>1, <2>2, <2>3 DEF Schema!Init, Schema!MigrationsConstants, SchemaTypes
<1>2. backups \in Seq(Copy) /\ Len(backups) <= KeepRecent
  BY DEF Schema!Init, Schema!MigrationsConstants
<1> QED
  BY <1>1, <1>2 DEF Schema!Init, SchemaInv, Schema!FailureUndone

LEMMA SchemaStep == ASSUME Schema!MigrationsConstants PROVE SchemaInv /\ [Schema!Next]_(Schema!vars) => SchemaInv'
<1> SUFFICES ASSUME SchemaInv, [Schema!Next]_(Schema!vars) PROVE SchemaInv'
  OBVIOUS
<1> USE DEF Schema!MigrationsConstants
<1>1. CASE Schema!Run
  BY <1>1 DEF Schema!Run, SchemaInv, SchemaTypes, Schema!FailureUndone
<1>2. CASE Schema!Backup
  <2>1. CASE taken' = Schema!Bk(current) /\ backups' = Schema!Pruned(Append(backups, taken'))
             /\ pc' = "apply" /\ current' = current /\ spent' = [spent EXCEPT !.copies = @ + 1]
    <3>1. taken' \in Copy /\ taken'.version = current
      BY <2>1 DEF Schema!Bk, Copy, SchemaInv, SchemaTypes
    <3>2. backups' \in Seq(Copy) /\ Len(backups') <= KeepRecent /\ \E i \in DOMAIN backups' : backups'[i] = taken'
      BY <2>1, <3>1, NewestIsKept DEF SchemaInv
    <3>3. SchemaTypes'
      BY <1>2, <2>1, <3>1 DEF Schema!Backup, SchemaInv, SchemaTypes
    <3> QED
      BY <1>2, <2>1, <3>1, <3>2, <3>3 DEF Schema!Backup, SchemaInv, Schema!FailureUndone
  <2>2. CASE Schema!Stopped /\ backups' = backups /\ spent' = [spent EXCEPT !.faults = @ + 1]
    BY <1>2, <2>2 DEF Schema!Backup, Schema!Stopped, SchemaInv, SchemaTypes, Schema!FailureUndone
  <2> QED
    BY <1>2, <2>1, <2>2 DEF Schema!Backup
<1>3. CASE Schema!Apply
  <2>1. current + 1 \in 0 .. Latest /\ db = current
    BY <1>3 DEF Schema!Apply, SchemaInv, SchemaTypes
  <2>2. SchemaTypes' /\ backups' = backups /\ unrestored' = unrestored
    BY <1>3, <2>1 DEF Schema!Apply, Schema!Applied, Schema!Stopped, SchemaInv, SchemaTypes
  <2> QED
    BY <1>3, <2>1, <2>2 DEF Schema!Apply, Schema!Applied, Schema!Stopped, SchemaInv, SchemaTypes, Schema!FailureUndone
<1>4. CASE Schema!Restore
  <2>1. SchemaTypes' /\ pc' = "stopped" /\ backups' = backups
    <3>1. spent' \in [starts : Nat, faults : Nat, copies : Nat]
      BY <1>4 DEF Schema!Restore, SchemaInv, SchemaTypes
    <3>3. unrestored' \in BOOLEAN
      BY <1>4, Zenon DEF Schema!Restore, SchemaInv, SchemaTypes
    <3>2. db' \in {db, current}
      BY <1>4 DEF Schema!Restore, SchemaInv
    <3> QED
      BY <1>4, <3>1, <3>2, <3>3 DEF Schema!Restore, Schema!Stopped, SchemaInv, SchemaTypes
  <2>2. unrestored' \/ db' = current'
    BY <1>4 DEF Schema!Restore, Schema!Stopped, SchemaInv
  <2> QED
    BY <2>1, <2>2 DEF SchemaInv, Schema!FailureUndone
<1>5. CASE Schema!Crash
  <2>1. pc' = "stopped" /\ UNCHANGED <<fate, db, current, taken, backups>>
    BY <1>5 DEF Schema!Crash, Schema!Stopped
  <2>2. unrestored' \in BOOLEAN /\ (~unrestored' => ~unrestored /\ pc # "restore")
    BY <1>5 DEF Schema!Crash
  <2>3. spent' \in [starts : Nat, faults : Nat, copies : Nat]
    BY <1>5 DEF Schema!Crash, SchemaInv, SchemaTypes
  <2>4. unrestored' \/ db' = current'
    <3>1. pc \in {"backup", "apply", "serving", "restore"}
      BY <1>5 DEF Schema!Crash
    <3> QED
      BY <2>1, <2>2, <3>1 DEF SchemaInv
  <2>5. SchemaTypes'
    BY <2>1, <2>2, <2>3 DEF SchemaInv, SchemaTypes
  <2> QED
    BY <2>1, <2>4, <2>5 DEF SchemaInv, Schema!FailureUndone
<1>6. CASE UNCHANGED Schema!vars
  BY <1>6 DEF Schema!vars, SchemaInv, SchemaTypes, Schema!FailureUndone
<1> QED
  BY <1>1, <1>2, <1>3, <1>4, <1>5, <1>6 DEF Schema!Next

\* A run of the migrations that fails, at any place and however often it is tried again, leaves
\* the file at the version of the last one committed, unless the restore was what failed
\* (runner.go, Run); and the copy to go back to is never pruned (backup.go, prune).
THEOREM FailuresAreUndone ==
    ASSUME Schema!MigrationsConstants
    PROVE  Schema!Spec => [](Schema!MigrationsTypeOK /\ Schema!FailureUndone /\ Schema!TargetKept)
<1>1. SchemaInv => Schema!MigrationsTypeOK /\ Schema!FailureUndone /\ Schema!TargetKept
  BY DEF SchemaInv, SchemaTypes, Schema!MigrationsTypeOK, Schema!TargetKept, Schema!ToSet
<1> QED
  BY <1>1, SchemaInit, SchemaStep, PTL DEF Schema!Spec

\* The version of the file moves up by one, or back by one when a migration is undone
\* (runner.go, applyOne).
THEOREM VersionsMoveByOne ==
    ASSUME Schema!MigrationsConstants PROVE Schema!Spec => [][Schema!OneStepAtATime]_(Schema!vars)
<1>1. SchemaInv /\ [Schema!Next]_(Schema!vars) => [Schema!OneStepAtATime]_(Schema!vars)
  <2> SUFFICES ASSUME SchemaInv, Schema!Next PROVE Schema!OneStepAtATime
    OBVIOUS
  <2>1. CASE Schema!Run \/ Schema!Backup \/ Schema!Crash
    BY <2>1 DEF Schema!Run, Schema!Backup, Schema!Crash, Schema!OneStepAtATime
  <2>2. CASE Schema!Apply
    BY <2>2 DEF Schema!Apply, Schema!Applied, SchemaInv, Schema!OneStepAtATime
  <2>3. CASE Schema!Restore
    <3>1. db' \in {db, current} /\ db \in {current, current + 1} /\ current \in Int /\ pc = "restore"
      BY <2>3 DEF Schema!Restore, SchemaInv, SchemaTypes
    <3> QED
      BY <3>1 DEF Schema!OneStepAtATime
  <2> QED
    BY <2>1, <2>2, <2>3 DEF Schema!Next
<1> QED
  BY <1>1, SchemaInit, SchemaStep, PTL DEF Schema!Spec

-----------------------------------------------------------------------------
(* GitWatcher.  Whatever is in the ring was published once; what a poll    *)
(* still has to tell, and what others told meanwhile, is all it found.     *)

CONSTANTS Pushers, MaxSha, Grace, TTL, Cap, MaxPolls
VARIABLES origin, head, lastLocal, lastRemote, pushedAt, ring, local, remote, push, done,
          commitsTold, told, view
Git == INSTANCE GitWatcher

Sha == 0 .. MaxSha
Key == Git!CommitKeys \cup Git!UpdateKeys
Seen == [key : Key \cup {Nothing}, ts : Nat]

\* The event of this key has gone out.
Out(key) == \/ key = Nothing
            \/ key \in told
            \/ \E c \in commitsTold : key = <<"commit", c>>
GitTypes ==
    /\ origin \in Sha /\ head \in Sha /\ lastRemote \in {Nothing} \cup Sha /\ now \in Nat
    /\ remote \in [pc : {"idle", "compare", "tell"}, next : Sha, old : Sha]
    /\ push \in [Pushers -> [pc : {"idle", "list", "record", "answered"}, key : Sha, old : Sha, new : Sha]]
    /\ ring \in Seq(Seen) /\ told \subseteq {"seed", "external_push", "vps_push"} \X Sha \X Sha
LocalTypes ==
    /\ lastLocal \in Sha
    /\ local \in [pc : {"idle", "list", "tell"}, head : Sha, todo : SUBSET Sha, due : SUBSET Sha]
RingIsOut == \A i \in DOMAIN ring : Out(ring[i].key)
GitInv == /\ GitTypes /\ LocalTypes /\ RingIsOut /\ Git!SettledWasTold
          /\ local.pc = "tell" => local.due \subseteq local.todo \cup commitsTold /\ local.todo # {}

\* A set of naturals that is not empty has a least element: the first commit to tell of.
LEMMA LeastExists == ASSUME NEW T, T \subseteq Nat, T # {} PROVE \E x \in T : \A y \in T : x <= y
<1> DEFINE R == {p \in Nat \X Nat : p[1] < p[2]}
<1>2. IsWellFoundedOn(R, Nat)
  BY NatLessThanWellFounded DEF OpToRel
<1>3. PICK x \in T : \A y \in T : ~ (<<y, x>> \in R)
  <2> HIDE DEF R
  <2> QED
    BY <1>2, WFMin
<1>4. ASSUME NEW y \in T PROVE x <= y
  <2>1. <<y, x>> \in R <=> y < x
    OBVIOUS
  <2> QED
    BY <1>3, <2>1
<1> QED
  BY <1>4

LEMMA SweptKeys ==
    ASSUME NEW r \in Seq(Seen), NEW key
    PROVE  /\ Git!Swept(r, key) \in Seq(Seen)
           /\ \A i \in DOMAIN Git!Swept(r, key) : \/ Git!Swept(r, key)[i].key = Nothing
                                                  \/ \E j \in DOMAIN r : Git!Swept(r, key)[i].key = r[j].key
<1> DEFINE s == Git!Swept(r, key)
<1>1. /\ DOMAIN s = DOMAIN r
      /\ \A i \in DOMAIN r : s[i] = r[i] \/ s[i] = [key |-> Nothing, ts |-> 0]
  BY DEF Git!Swept, Git!Hole
<1>2. s = [i \in 1 .. Len(r) |-> s[i]]
  BY DEF Git!Swept
<1>3. \A i \in 1 .. Len(r) : s[i] \in Seen
  <2>1. [key |-> Nothing, ts |-> 0] \in Seen
    BY DEF Seen
  <2> HIDE DEF s
  <2> QED
    BY <1>1, <2>1
<1>4. s \in Seq(Seen)
  BY <1>2, <1>3
<1> QED
  BY <1>1, <1>4

\* What markSeenEvent leaves in the ring was there, or is the event just marked.
LEMMA MarkedKeys ==
    ASSUME Git!WatcherConstants, now \in Nat, NEW r \in Seq(Seen), NEW key \in Key
    PROVE  /\ Git!Marked(r, key) \in Seq(Seen)
           /\ \A i \in DOMAIN Git!Marked(r, key) :
                 \/ Git!Marked(r, key)[i].key \in {Nothing, key}
                 \/ \E j \in DOMAIN r : Git!Marked(r, key)[i].key = r[j].key
<1> DEFINE w == Git!Swept(r, key)
           e == [key |-> key, ts |-> now]
           s == Append(w, e)
<1>1. w \in Seq(Seen) /\ e \in Seen
  BY SweptKeys DEF Seen
<1>2. s \in Seq(Seen) /\ \A i \in DOMAIN s : s[i] = e \/ \E j \in DOMAIN w : s[i] = w[j]
  <2> HIDE DEF w, e
  <2> QED
    BY <1>1
<1>3. \A i \in DOMAIN s : s[i].key \in {Nothing, key} \/ \E j \in DOMAIN r : s[i].key = r[j].key
  BY <1>2, SweptKeys
<1>4. s # <<>> /\ Len(s) > 0
  <2> HIDE DEF w, e
  <2> QED
    BY <1>1
<1>5. Tail(s) \in Seq(Seen) /\ \A i \in DOMAIN Tail(s) : i + 1 \in DOMAIN s /\ Tail(s)[i] = s[i + 1]
  <2> HIDE DEF s
  <2> QED
    BY <1>2, <1>4
<1> DEFINE m == Git!Marked(r, key)
<1>6. m = r \/ m = s \/ m = Tail(s)
  BY DEF Git!Marked
<1> HIDE DEF m, s
<1>7. CASE m = Tail(s)
  <2>1. ASSUME NEW i \in DOMAIN m
        PROVE m[i].key \in {Nothing, key} \/ \E j \in DOMAIN r : m[i].key = r[j].key
    BY <1>3, <1>5, <1>7
  <2> QED
    BY <1>5, <1>7, <2>1 DEF m
<1> QED
  BY <1>2, <1>3, <1>6, <1>7 DEF m

LEMMA RingKept ==
    ASSUME Git!WatcherConstants, GitTypes, RingIsOut, NEW key \in Key,
           told \subseteq told', commitsTold \subseteq commitsTold',
           \/ ring' = ring
           \/ ring' = Git!Swept(ring, key)
           \/ ring' = Git!Marked(ring, key) /\ Out(key)'
    PROVE  ring' \in Seq(Seen) /\ RingIsOut'
<1>1. ASSUME NEW k, Out(k) PROVE Out(k)'
  BY <1>1 DEF Out
<1>2. Out(Nothing)'
  BY DEF Out
<1>3. ring \in Seq(Seen) /\ now \in Nat
  BY DEF GitTypes
<1>4. CASE ring' = ring
  BY <1>1, <1>3, <1>4 DEF RingIsOut
<1>5. CASE ring' = Git!Swept(ring, key)
  BY <1>1, <1>2, <1>3, <1>5, SweptKeys DEF RingIsOut
<1>6. CASE ring' = Git!Marked(ring, key) /\ Out(key)'
  BY <1>1, <1>2, <1>3, <1>6, MarkedKeys DEF RingIsOut
<1> QED
  BY <1>4, <1>5, <1>6

\* What is in the ring under the key of an update has been told.
LEMMA SeenWasTold ==
    ASSUME Git!WatcherConstants, GitTypes, RingIsOut, NEW key \in Git!UpdateKeys, Git!SeenIn(ring, key)
    PROVE  key \in told
<1>1. PICK i \in DOMAIN ring : ring[i].key = key
  BY DEF Git!SeenIn
<1>2. Out(key)
  BY <1>1 DEF RingIsOut
<1>3. key # Nothing
  BY DEF Git!WatcherConstants
<1>4. \A c : key # <<"commit", c>>
  BY DEF Git!UpdateKeys
<1> QED
  BY <1>2, <1>3, <1>4 DEF Out

LEMMA SeenCommitWasTold ==
    ASSUME Git!WatcherConstants, GitTypes, RingIsOut, NEW c \in Sha, Git!SeenIn(ring, <<"commit", c>>)
    PROVE  c \in commitsTold
<1>1. PICK i \in DOMAIN ring : ring[i].key = <<"commit", c>>
  BY DEF Git!SeenIn
<1>2. Out(<<"commit", c>>)
  BY <1>1 DEF RingIsOut
<1>3. <<"commit", c>> \in Git!CommitKeys
  BY DEF Git!CommitKeys, Git!Sha, Sha
<1>4. <<"commit", c>> # Nothing
  BY <1>3 DEF Git!WatcherConstants
<1>5. <<"commit", c>> \notin told
  BY DEF GitTypes
<1> QED
  BY <1>2, <1>4, <1>5 DEF Out

LEMMA GitInit == ASSUME Git!WatcherConstants PROVE Git!Init => GitInv
<1> SUFFICES ASSUME Git!WatcherConstants, Git!Init PROVE GitInv
  OBVIOUS
<1> USE DEF Git!WatcherConstants, Git!Init, Sha
<1>1. origin \in Sha /\ head \in Sha /\ lastRemote \in {Nothing} \cup Sha /\ now \in Nat
  OBVIOUS
<1>2. remote \in [pc : {"idle", "compare", "tell"}, next : Sha, old : Sha]
  OBVIOUS
<1>3. push \in [Pushers -> [pc : {"idle", "list", "record", "answered"}, key : Sha, old : Sha, new : Sha]]
  OBVIOUS
<1>4. LocalTypes
  BY DEF LocalTypes
<1>5. ring \in Seq(Seen) /\ RingIsOut
  BY DEF RingIsOut
<1>6. Git!SettledWasTold
  BY DEF Git!SettledWasTold
<1> QED
  BY <1>1, <1>2, <1>3, <1>4, <1>5, <1>6 DEF GitTypes, GitInv

LEMMA GitStep == ASSUME Git!WatcherConstants PROVE GitInv /\ [Git!Next]_(Git!vars) => GitInv'
<1> SUFFICES ASSUME GitInv, [Git!Next]_(Git!vars) PROVE GitInv'
  OBVIOUS
<1> USE DEF Git!watcher, Git!Spend
<1>a. GitTypes /\ LocalTypes /\ RingIsOut /\ Git!SettledWasTold
  BY DEF GitInv
\* Steps of the world and of PollLocal leave what was told of the branch alone.
<1>1. CASE Git!Commit
  <2>1. head' \in Sha /\ UNCHANGED <<origin, lastLocal, lastRemote, ring, local, remote, push, commitsTold, told, now>>
    BY <1>1, <1>a DEF Git!Commit, GitTypes, Sha, Git!WatcherConstants
  <2> QED
    BY <2>1 DEF GitInv, GitTypes, LocalTypes, RingIsOut, Out, Git!SettledWasTold
<1>2. CASE Git!ExternalPush
  <2>1. origin' \in Sha /\ UNCHANGED <<head, lastLocal, lastRemote, ring, local, remote, push, commitsTold, told, now>>
    BY <1>2, <1>a DEF Git!ExternalPush, GitTypes, Sha, Git!WatcherConstants
  <2> QED
    BY <2>1 DEF GitInv, GitTypes, LocalTypes, RingIsOut, Out, Git!SettledWasTold
<1>3. CASE Git!Tick
  <2>1. now' \in Nat /\ UNCHANGED <<origin, head, lastLocal, lastRemote, ring, local, remote, push, commitsTold, told>>
    BY <1>3, <1>a DEF Git!Tick, GitTypes
  <2> QED
    BY <2>1 DEF GitInv, GitTypes, LocalTypes, RingIsOut, Out, Git!SettledWasTold
<1>4. CASE Git!LocalRead \/ Git!LocalList
  <2>1. UNCHANGED <<origin, head, lastRemote, ring, remote, push, commitsTold, told, now>>
    BY <1>4 DEF Git!LocalRead, Git!LocalList
  <2>2. LocalTypes' /\ (local'.pc = "tell" => local'.due \subseteq local'.todo \cup commitsTold' /\ local'.todo # {})
    <3>1. CASE Git!LocalRead
      BY <1>a, <3>1 DEF GitInv, Git!LocalRead, LocalTypes, GitTypes
    <3>2. CASE Git!LocalList
      <4>1. Git!Unpushed \subseteq Sha
        BY DEF Git!Unpushed, Sha
      <4>2. \A c \in Git!Unpushed : Git!SeenIn(ring, <<"commit", c>>) => c \in commitsTold
        BY <1>a, <4>1, SeenCommitWasTold
      <4> DEFINE new == {c \in Git!Unpushed : ~Git!SeenIn(ring, <<"commit", c>>)}
      <4>3. new \subseteq Sha /\ Git!Unpushed \subseteq new \cup commitsTold
        BY <4>1, <4>2
      <4>4. \/ /\ local' = [local EXCEPT !.pc = "tell", !.todo = new, !.due = Git!Unpushed]
               /\ new # {} /\ UNCHANGED lastLocal
            \/ local' = [local EXCEPT !.pc = "idle"] /\ lastLocal' = local.head
        BY <3>2 DEF Git!LocalList
      <4> HIDE DEF new
      <4> QED
        BY <1>a, <2>1, <4>1, <4>3, <4>4 DEF LocalTypes
    <3> QED
      BY <1>4, <3>1, <3>2
  <2> QED
    BY <2>1, <2>2, <1>a DEF GitInv, GitTypes, RingIsOut, Out, Git!SettledWasTold
<1>5. CASE Git!LocalTell
  <2>0. PICK c : c = CHOOSE x \in local.todo : \A y \in local.todo : x <= y
    OBVIOUS
  <2> DEFINE key == <<"commit", c>>
             rest == local.todo \ {c}
  <2>1. local.pc = "tell" /\ local.todo \subseteq Sha /\ local.todo # {}
    BY <1>5 DEF Git!LocalTell, GitInv, LocalTypes
  <2>2. c \in local.todo
    <3>1. local.todo \subseteq Nat
      BY <2>1 DEF Sha, Git!WatcherConstants
    <3> QED
      BY <2>0, <2>1, <3>1, LeastExists
  <2>3. key \in Key
    <3>1. c \in Git!Sha
      BY <2>1, <2>2 DEF Git!Sha, Sha
    <3> QED
      BY <3>1 DEF Key, Git!CommitKeys
  <2>4. /\ UNCHANGED <<origin, head, lastRemote, remote, push, told, now>>
        /\ \/ /\ ring' = Git!Marked(ring, key) /\ commitsTold' = commitsTold \cup {c}
              /\ local' = [local EXCEPT !.todo = rest, !.pc = IF rest = {} THEN "idle" ELSE "tell"]
              /\ lastLocal' = IF rest = {} THEN local.head ELSE lastLocal
           \/ local' = [local EXCEPT !.pc = "idle"] /\ UNCHANGED <<ring, commitsTold, lastLocal>>
    BY <1>5, <2>0 DEF Git!LocalTell
  <2>5. LocalTypes' /\ (local'.pc = "tell" => local'.due \subseteq local'.todo \cup commitsTold' /\ local'.todo # {})
    <3>1. CASE local' = [local EXCEPT !.pc = "idle"] /\ UNCHANGED <<ring, commitsTold, lastLocal>>
      BY <1>a, <3>1 DEF LocalTypes
    <3>2. CASE /\ local' = [local EXCEPT !.todo = rest, !.pc = IF rest = {} THEN "idle" ELSE "tell"]
               /\ lastLocal' = IF rest = {} THEN local.head ELSE lastLocal
               /\ commitsTold' = commitsTold \cup {c}
      <4>1. rest \in SUBSET Sha /\ local.todo \subseteq rest \cup {c}
        BY <2>1
      <4>2. local.due \subseteq local.todo \cup commitsTold
        BY <2>1 DEF GitInv
      <4>0. PICK place : place = IF rest = {} THEN "idle" ELSE "tell"
        OBVIOUS
      <4>a. place \in {"idle", "tell"} /\ (place = "tell" => rest # {})
        BY <4>0
      <4>b. local' = [local EXCEPT !.todo = rest, !.pc = place]
        BY <3>2, <4>0
      <4>4. lastLocal' \in Sha
        BY <1>a, <3>2 DEF LocalTypes
      <4>5. commitsTold' = commitsTold \cup {c}
        BY <3>2
      <4> HIDE DEF rest
      <4>3. /\ local' \in [pc : {"idle", "list", "tell"}, head : Sha, todo : SUBSET Sha, due : SUBSET Sha]
            /\ local'.todo = rest /\ local'.due = local.due /\ local'.pc = place
        BY <1>a, <4>1, <4>a, <4>b DEF LocalTypes
      <4> QED
        BY <4>1, <4>2, <4>3, <4>4, <4>5, <4>a DEF LocalTypes
    <3> QED
      BY <2>4, <3>1, <3>2
  <2>6. ring' \in Seq(Seen) /\ RingIsOut'
    <3>1. commitsTold \subseteq commitsTold' /\ told \subseteq told'
      BY <2>4
    <3>2. ring' = ring \/ (ring' = Git!Marked(ring, key) /\ Out(key)')
      BY <2>4 DEF Out
    <3> HIDE DEF key
    <3> QED
      BY <1>a, <2>3, <3>1, <3>2, RingKept
  <2> QED
    BY <1>a, <2>4, <2>5, <2>6 DEF GitInv, GitTypes, Git!SettledWasTold
\* Steps of PollOrigin and of a push leave PollLocal alone.
<1>6. CASE Git!OriginList
  BY <1>6, <1>a DEF Git!OriginList, GitInv, GitTypes, LocalTypes, RingIsOut, Out, Git!SettledWasTold
<1>7. CASE Git!OriginCompare
  <2>1. /\ UNCHANGED <<origin, head, lastLocal, ring, local, push, commitsTold, now>>
        /\ \/ lastRemote' = remote.next /\ told' = told \cup {<<"seed", remote.next, remote.next>>}
              /\ remote' = [remote EXCEPT !.pc = "idle"]
           \/ UNCHANGED <<lastRemote, told>> /\ remote' = [remote EXCEPT !.pc = "idle"]
           \/ /\ UNCHANGED <<lastRemote, told>> /\ lastRemote # Nothing
              /\ remote' = [remote EXCEPT !.pc = "tell", !.old = lastRemote]
    BY <1>7 DEF Git!OriginCompare
  <2>2. remote.next \in Sha
    BY <1>a DEF GitTypes
  <2> PICK seed : seed = <<"seed", remote.next, remote.next>>
    OBVIOUS
  <2>6. seed \in {"seed", "external_push", "vps_push"} \X Sha \X Sha /\ seed[3] = remote.next
    BY <2>2
  <2>7. told' \in {told, told \cup {seed}} /\ lastRemote' \in {lastRemote, remote.next}
    BY <2>1
  <2>8. remote' \in [pc : {"idle", "compare", "tell"}, next : Sha, old : Sha]
    BY <1>a, <2>1 DEF GitTypes
  <2>3. GitTypes'
    BY <1>a, <2>1, <2>2, <2>6, <2>7, <2>8 DEF GitTypes
  <2>4. Git!SettledWasTold'
    <3>1. \/ lastRemote' = lastRemote /\ told \subseteq told'
          \/ lastRemote' = remote.next /\ seed \in told'
      BY <2>1
    <3> QED
      BY <1>a, <2>6, <3>1 DEF Git!SettledWasTold
  <2>5. RingIsOut'
    BY <1>a, <2>1 DEF RingIsOut, Out
  <2> QED
    BY <2>1, <2>3, <2>4, <2>5 DEF GitInv, LocalTypes
<1>8. CASE Git!OriginTell
  <2> PICK key : key = <<"external_push", remote.old, remote.next>>
    OBVIOUS
  <2>1. remote.next \in Sha /\ remote.old \in Sha
    BY <1>a DEF GitTypes
  <2>2. key \in Git!UpdateKeys /\ key \in Key
    BY <2>1 DEF Git!UpdateKeys, Git!Sha, Sha, Key
  <2>3. Git!SeenIn(ring, key) => key \in told
    BY <1>a, <2>2, SeenWasTold
  <2>4. key[3] = remote.next
    OBVIOUS
  <2>5. /\ UNCHANGED <<origin, head, lastLocal, local, push, commitsTold, now>>
        /\ remote' = [remote EXCEPT !.pc = "idle"]
        /\ \/ lastRemote' = remote.next /\ UNCHANGED <<ring, told>> /\ key \in told
           \/ lastRemote' = remote.next /\ ring' = Git!Marked(ring, key) /\ told' = told \cup {key}
           \/ ring' = Git!Swept(ring, key) /\ UNCHANGED <<told, lastRemote>>
    BY <1>8, <2>3 DEF Git!OriginTell, Git!OriginKey
  <2>6. ring' \in Seq(Seen) /\ RingIsOut'
    <3>1. commitsTold \subseteq commitsTold' /\ told \subseteq told'
      BY <2>5
    <3>2. ring' = ring \/ ring' = Git!Swept(ring, key) \/ (ring' = Git!Marked(ring, key) /\ Out(key)')
      BY <2>5 DEF Out
    <3> QED
      BY <1>a, <2>2, <3>1, <3>2, RingKept
  <2>7. Git!SettledWasTold'
    BY <1>a, <2>4, <2>5 DEF Git!SettledWasTold
  <2>8. told' \subseteq {"seed", "external_push", "vps_push"} \X Sha \X Sha
    BY <1>a, <2>1, <2>5 DEF GitTypes
  <2>9. GitTypes'
    BY <1>a, <2>1, <2>5, <2>6, <2>8 DEF GitTypes
  <2> QED
    BY <1>a, <2>5, <2>6, <2>7, <2>9 DEF GitInv, LocalTypes
<1>9. ASSUME NEW p \in Pushers, Git!Request(p) \/ Git!GitPush(p) PROVE GitInv'
  <2>1. UNCHANGED <<head, lastLocal, lastRemote, ring, local, remote, commitsTold, told, now>>
    BY <1>9 DEF Git!Request, Git!GitPush
  <2>2. origin' \in Sha /\ push' \in [Pushers -> [pc : {"idle", "list", "record", "answered"}, key : Sha, old : Sha, new : Sha]]
    <3>1. CASE Git!Request(p)
      <4>1. 0 \in Sha /\ head \in Sha /\ origin' = origin
        BY <1>a, <3>1 DEF Git!Request, GitTypes, Sha, Git!WatcherConstants
      <4>2. \/ push' = [push EXCEPT ![p].pc = "answered"]
            \/ push' = [push EXCEPT ![p] = [pc |-> "list", key |-> head, old |-> 0, new |-> 0]]
        BY <3>1 DEF Git!Request
      <4>3. [pc |-> "list", key |-> head, old |-> 0, new |-> 0]
               \in [pc : {"idle", "list", "record", "answered"}, key : Sha, old : Sha, new : Sha]
        BY <4>1
      <4>4. CASE push' = [push EXCEPT ![p].pc = "answered"]
        BY <1>a, <4>1, <4>4 DEF GitTypes
      <4>5. CASE push' = [push EXCEPT ![p] = [pc |-> "list", key |-> head, old |-> 0, new |-> 0]]
        BY <1>a, <4>1, <4>3, <4>5 DEF GitTypes
      <4> QED
        BY <4>2, <4>4, <4>5
    <3>2. CASE Git!GitPush(p)
      <4>1. \/ origin' = head /\ push' = [push EXCEPT ![p].pc = "record", ![p].old = origin, ![p].new = head]
            \/ origin' = origin /\ push' = [push EXCEPT ![p].pc = "answered"]
        BY <3>2 DEF Git!GitPush
      <4>2. CASE origin' = head /\ push' = [push EXCEPT ![p].pc = "record", ![p].old = origin, ![p].new = head]
        <5>1. [push[p] EXCEPT !.pc = "record", !.old = origin, !.new = head]
                 \in [pc : {"idle", "list", "record", "answered"}, key : Sha, old : Sha, new : Sha]
          BY <1>a DEF GitTypes
        <5>2. push' = [push EXCEPT ![p] = [push[p] EXCEPT !.pc = "record", !.old = origin, !.new = head]]
          BY <1>a, <4>2 DEF GitTypes
        <5> QED
          BY <1>a, <4>2, <5>1, <5>2 DEF GitTypes
      <4>3. CASE origin' = origin /\ push' = [push EXCEPT ![p].pc = "answered"]
        BY <1>a, <4>3 DEF GitTypes
      <4> QED
        BY <4>1, <4>2, <4>3
    <3> QED
      BY <1>9, <3>1, <3>2
  <2> QED
    BY <1>a, <2>1, <2>2 DEF GitInv, GitTypes, LocalTypes, RingIsOut, Out, Git!SettledWasTold
<1>10. ASSUME NEW p \in Pushers, Git!Record(p) PROVE GitInv'
  <2> PICK key : key = <<"vps_push", push[p].old, push[p].new>>
    OBVIOUS
  <2>1. push[p].old \in Sha /\ push[p].new \in Sha
    BY <1>a DEF GitTypes
  <2>2. key \in Git!UpdateKeys /\ key \in Key
    BY <2>1 DEF Git!UpdateKeys, Git!Sha, Sha, Key
  <2>3. Git!SeenIn(ring, key) => key \in told
    BY <1>a, <2>2, SeenWasTold
  <2>4. key[3] = push[p].new
    OBVIOUS
  <2>5. /\ UNCHANGED <<origin, head, lastLocal, local, remote, commitsTold, now>>
        /\ push' = [push EXCEPT ![p].pc = "answered"]
        /\ \/ lastRemote' = push[p].new /\ UNCHANGED <<ring, told>> /\ key \in told
           \/ lastRemote' = push[p].new /\ ring' = Git!Marked(ring, key) /\ told' = told \cup {key}
           \/ ring' = Git!Swept(ring, key) /\ UNCHANGED <<told, lastRemote>>
           \/ UNCHANGED <<ring, told, lastRemote>>
    BY <1>10, <2>3 DEF Git!Record, Git!OriginKey
  <2>6. ring' \in Seq(Seen) /\ RingIsOut'
    <3>1. commitsTold \subseteq commitsTold' /\ told \subseteq told'
      BY <2>5
    <3>2. ring' = ring \/ ring' = Git!Swept(ring, key) \/ (ring' = Git!Marked(ring, key) /\ Out(key)')
      BY <2>5 DEF Out
    <3> QED
      BY <1>a, <2>2, <3>1, <3>2, RingKept
  <2>7. Git!SettledWasTold'
    BY <1>a, <2>4, <2>5 DEF Git!SettledWasTold
  <2>8. told' \subseteq {"seed", "external_push", "vps_push"} \X Sha \X Sha
    BY <1>a, <2>1, <2>5 DEF GitTypes
  <2>9. GitTypes'
    BY <1>a, <2>1, <2>5, <2>6, <2>8 DEF GitTypes
  <2> QED
    BY <1>a, <2>5, <2>6, <2>7, <2>9 DEF GitInv, LocalTypes
<1>11. CASE UNCHANGED Git!vars
  BY <1>11, <1>a DEF Git!vars, GitInv, GitTypes, LocalTypes, RingIsOut, Out, Git!SettledWasTold
<1> QED
  BY <1>1, <1>2, <1>3, <1>4, <1>5, <1>6, <1>7, <1>8, <1>9, <1>10, <1>11 DEF Git!Next

\* The commit at which the watcher believes the branch to be was named by an event, or by the
\* seed, whatever failed to go out, whoever recorded a change first and whatever the ring has
\* forgotten since (watcher/git_watcher.go, PollOrigin, RecordPushCompleted).
THEOREM SettledAlwaysTold ==
    ASSUME Git!WatcherConstants PROVE Git!Spec => []Git!SettledWasTold
<1>1. GitInv => Git!SettledWasTold
  BY DEF GitInv
<1> QED
  BY <1>1, GitInit, GitStep, PTL DEF Git!Spec

\* The local poll moves past a head only when every commit it found unpushed has been told of,
\* also where an earlier poll was cut off by a failed publication (PollLocal).
THEOREM CommitsAreToldFirst ==
    ASSUME Git!WatcherConstants PROVE Git!Spec => [][Git!SettledCommitsTold]_(Git!vars)
<1>1. GitInv /\ [Git!Next]_(Git!vars) => [Git!SettledCommitsTold]_(Git!vars)
  <2> SUFFICES ASSUME GitInv, Git!Next PROVE Git!SettledCommitsTold
    OBVIOUS
  <2> USE DEF Git!watcher
  <2>1. CASE Git!LocalRead
    BY <2>1 DEF Git!LocalRead, Git!SettledCommitsTold
  <2>2. CASE Git!LocalList
    <3>1. GitTypes /\ RingIsOut /\ Git!Unpushed \subseteq Sha
      BY DEF GitInv, Git!Unpushed, Sha
    <3>2. \A c \in Git!Unpushed : Git!SeenIn(ring, <<"commit", c>>) => c \in commitsTold
      BY <3>1, SeenCommitWasTold
    <3> DEFINE new == {c \in Git!Unpushed : ~Git!SeenIn(ring, <<"commit", c>>)}
    <3>3. new = {} => Git!Unpushed \subseteq commitsTold
      BY <3>2
    <3>4. local.pc = "list" /\ commitsTold' = commitsTold
      BY <2>2 DEF Git!LocalList
    <3>5. lastLocal' # lastLocal => local.head \notin Git!Unpushed \/ new = {}
      BY <2>2 DEF Git!LocalList
    <3> HIDE DEF new
    <3> QED
      BY <3>3, <3>4, <3>5 DEF Git!SettledCommitsTold
  <2>3. CASE Git!LocalTell
    <3>0. PICK c : c = CHOOSE x \in local.todo : \A y \in local.todo : x <= y
      OBVIOUS
    <3>1. /\ local.pc = "tell"
          /\ lastLocal' # lastLocal => local.todo \ {c} = {} /\ commitsTold' = commitsTold \cup {c}
      BY <2>3, <3>0 DEF Git!LocalTell
    <3>2. local.due \subseteq local.todo \cup commitsTold
      BY <3>1 DEF GitInv
    <3> QED
      BY <3>1, <3>2 DEF Git!SettledCommitsTold
  <2>4. CASE \/ Git!Commit \/ Git!ExternalPush \/ Git!Tick \/ Git!OriginList \/ Git!OriginCompare
             \/ Git!OriginTell \/ \E p \in Pushers : Git!Request(p) \/ Git!GitPush(p) \/ Git!Record(p)
    <3>1. lastLocal' = lastLocal
      <4>1. CASE Git!Commit \/ Git!ExternalPush \/ Git!Tick
        BY <4>1 DEF Git!Commit, Git!ExternalPush, Git!Tick
      <4>2. CASE Git!OriginList \/ Git!OriginCompare \/ Git!OriginTell
        BY <4>2 DEF Git!OriginList, Git!OriginCompare, Git!OriginTell
      <4>3. ASSUME NEW p \in Pushers, Git!Request(p) \/ Git!GitPush(p) \/ Git!Record(p)
            PROVE  lastLocal' = lastLocal
        BY <4>3 DEF Git!Request, Git!GitPush, Git!Record
      <4> QED
        BY <2>4, <4>1, <4>2, <4>3
    <3> QED
      BY <3>1 DEF Git!SettledCommitsTold
  <2> QED
    BY <2>1, <2>2, <2>3, <2>4 DEF Git!Next
<1> QED
  BY <1>1, GitInit, GitStep, PTL DEF Git!Spec

-----------------------------------------------------------------------------
(* PrivilegeBoundary.  Of the callers that hold a token and the runs of    *)
(* this process that used it there is one as long as it has not expired.   *)

CONSTANTS Callers, Tokens, MaxRuns, MaxRestarts
VARIABLES allowlist, claims, consumed, call, ran, lives
Helper == INSTANCE PrivilegeBoundary

Claim == [action : Helper!KnownActions, list : Helper!Allowlists, expires : Nat]
Call == [pc : {"claims", "consume", "run"}, mode : {"bootstrap", "steady"}, action : Helper!KnownActions,
         token : Tokens \cup {Nothing}, fits : {TRUE}, list : Helper!Allowlists, read : Nat]
Ran == [by : Callers, action : Helper!KnownActions, mode : {"bootstrap", "steady"}, list : Helper!Allowlists,
        token : Tokens \cup {Nothing}, fits : {TRUE}, life : Nat, late : BOOLEAN]

HelperTypes ==
    /\ now \in 0 .. MaxTime /\ lives \in Nat /\ allowlist \in Helper!Allowlists
    /\ claims \in [Tokens -> Claim \cup {Nothing}]
    /\ consumed \subseteq {t \in Tokens : claims[t] # Nothing}
    /\ call \in [Callers -> Call \cup {Helper!Idle}]
    /\ ran \subseteq Ran

\* What the helper, or a run, goes by: its entry, and its token if it is not a bootstrap.
Granted(i) ==
    /\ i.action \in i.list /\ i.fits
    /\ i.mode = "bootstrap" => i.action \in Helper!BootstrapActions /\ i.token = Nothing
    /\ i.mode = "steady" => i.token \in Tokens
Covered(i) ==
    i.mode = "steady" => /\ claims[i.token] # Nothing
                         /\ claims[i.token].action = i.action /\ claims[i.token].list = i.list
Admissions ==
    /\ \A c \in Callers : call[c].pc # "idle" => Granted(call[c])
    /\ \A c \in Callers : call[c].pc = "claims" => call[c].mode = "steady"
    /\ \A c \in Callers : call[c].pc = "consume" => call[c].mode = "steady"
    /\ \A c \in Callers : call[c].pc \in {"consume", "run"} => Covered(call[c])
    /\ \A r \in ran : Granted(r) /\ Covered(r)

\* A token that a caller carries past Consume, or a run of this process used.
Carries(c, t) == call[c].pc = "run" /\ call[c].token = t
Used(r, t) == r.token = t /\ r.life = lives
Expired(t) == claims[t].expires < now
OneUse ==
    \A t \in Tokens :
        claims[t] # Nothing =>
        /\ \A c \in Callers : Carries(c, t) => Expired(t) \/ t \in consumed
        /\ \A r \in ran : Used(r, t) => Expired(t) \/ t \in consumed
        /\ \A c, d \in Callers : Carries(c, t) /\ Carries(d, t) => Expired(t) \/ c = d
        /\ \A c \in Callers, r \in ran : Carries(c, t) /\ Used(r, t) => Expired(t)
HelperInv == HelperTypes /\ Admissions /\ OneUse /\ Helper!TokenRunsOnce /\ \A r \in ran : r.life <= lives

LEMMA HelperInit == ASSUME Helper!BoundaryConstants PROVE Helper!Init => HelperInv
<1> SUFFICES ASSUME Helper!BoundaryConstants, Helper!Init PROVE HelperInv
  OBVIOUS
<1>1. HelperTypes
  BY DEF Helper!Init, Helper!BoundaryConstants, HelperTypes
<1>2. Admissions
  BY DEF Helper!Init, Admissions, Helper!Idle
<1>3. OneUse
  BY DEF Helper!Init, OneUse, Helper!Idle, Carries
<1> QED
  BY <1>1, <1>2, <1>3 DEF Helper!Init, HelperInv, Helper!TokenRunsOnce

\* What becomes of the invocations when one goes on, or is over.
LEMMA Went ==
    ASSUME HelperTypes, NEW c \in Callers, NEW p \in {"claims", "consume", "run"},
           call[c].pc # "idle", Helper!Go(c, p)
    PROVE  /\ call' \in [Callers -> Call \cup {Helper!Idle}]
           /\ call'[c].pc = p /\ call'[c].mode = call[c].mode /\ call'[c].action = call[c].action
           /\ call'[c].token = call[c].token /\ call'[c].fits = call[c].fits /\ call'[c].list = call[c].list
           /\ \A d \in Callers \ {c} : call'[d] = call[d]
<1>1. call[c] \in Call
  BY DEF HelperTypes, Helper!Idle
<1> DEFINE new == [call[c] EXCEPT !.pc = p]
<1>2. new \in Call /\ new.pc = p /\ new.mode = call[c].mode /\ new.action = call[c].action
      /\ new.token = call[c].token /\ new.fits = call[c].fits /\ new.list = call[c].list
  BY <1>1 DEF Call
<1>3. call' = [call EXCEPT ![c] = new]
  BY DEF Helper!Go
<1> HIDE DEF new
<1> QED
  BY <1>2, <1>3 DEF HelperTypes

LEMMA Over ==
    ASSUME HelperTypes, NEW c \in Callers, Helper!Return(c)
    PROVE  /\ call' \in [Callers -> Call \cup {Helper!Idle}] /\ call'[c].pc = "idle"
           /\ \A d \in Callers \ {c} : call'[d] = call[d]
BY DEF HelperTypes, Helper!Return, Helper!Idle

LEMMA HelperTyped == ASSUME Helper!BoundaryConstants PROVE HelperInv /\ [Helper!Next]_(Helper!vars) => HelperTypes'
<1> SUFFICES ASSUME HelperInv, [Helper!Next]_(Helper!vars) PROVE HelperTypes'
  OBVIOUS
<1>a. HelperTypes /\ Admissions
  BY DEF HelperInv
<1>1. ASSUME NEW t \in Tokens, NEW a \in Helper!KnownActions, Helper!Mint(t, a, 1) PROVE HelperTypes'
  <2>1. [action |-> a, list |-> allowlist, expires |-> now + 1] \in Claim
    BY <1>a DEF HelperTypes, Claim
  <2>2. claims' \in [Tokens -> Claim \cup {Nothing}] /\ claims[t] = Nothing /\ \A u \in Tokens \ {t} : claims'[u] = claims[u]
    BY <1>a, <1>1, <2>1 DEF Helper!Mint, HelperTypes
  <2>3. UNCHANGED <<now, allowlist, consumed, call, ran, lives>>
    BY <1>1 DEF Helper!Mint
  <2> QED
    BY <1>a, <2>2, <2>3 DEF HelperTypes
<1>2. ASSUME NEW c \in Callers, Helper!Invoke(c) PROVE HelperTypes'
  <2>1. PICK mode \in {"bootstrap", "steady"}, action \in Helper!KnownActions \cup {"other"},
             t \in Tokens \cup {Nothing}, fits \in BOOLEAN, expected \in Helper!Allowlists \cup {Nothing} :
           LET i == Helper!Invocation(mode, action, t, fits, expected)
           IN  /\ Helper!Admitted(i)
               /\ IF mode = "bootstrap" THEN t = Nothing /\ action \in Helper!BootstrapActions ELSE t # Nothing
               /\ call' = [call EXCEPT ![c] = [pc |-> IF mode = "bootstrap" THEN "run" ELSE "claims",
                             mode |-> mode, action |-> action, token |-> t, fits |-> fits,
                             list |-> allowlist, read |-> now]]
    BY <1>2, Zenon DEF Helper!Invoke
  <2>2. action \in allowlist /\ fits = TRUE
    BY <2>1 DEF Helper!Admitted, Helper!Invocation
  <2> DEFINE place == IF mode = "bootstrap" THEN "run" ELSE "claims"
             new == [pc |-> place, mode |-> mode, action |-> action, token |-> t, fits |-> fits,
                     list |-> allowlist, read |-> now]
  <2>3. place \in {"claims", "run"}
    OBVIOUS
  <2>4. action \in Helper!KnownActions /\ now \in Nat
    BY <1>a, <2>2 DEF HelperTypes, Helper!Allowlists
  <2>5. new \in Call
    <3> HIDE DEF place
    <3> QED
      BY <1>a, <2>2, <2>3, <2>4 DEF HelperTypes, Call
  <2>6. call' = [call EXCEPT ![c] = new] /\ UNCHANGED <<now, allowlist, claims, consumed, ran, lives>>
    BY <1>2, <2>1 DEF Helper!Invoke
  <2> HIDE DEF new
  <2> QED
    BY <1>a, <2>5, <2>6 DEF HelperTypes
<1>3. ASSUME NEW c \in Callers, Helper!ReadClaims(c) \/ Helper!Consume(c) PROVE HelperTypes'
  <2>1. call[c].pc # "idle" /\ UNCHANGED <<now, allowlist, claims, ran, lives>>
    BY <1>3 DEF Helper!ReadClaims, Helper!Consume
  <2>2. Helper!Go(c, "consume") \/ Helper!Go(c, "run") \/ Helper!Return(c)
    BY <1>3 DEF Helper!ReadClaims, Helper!Consume
  <2>3. call' \in [Callers -> Call \cup {Helper!Idle}]
    BY <1>a, <2>1, <2>2, Went, Over
  <2>4. call[c].pc = "consume" => call[c].token \in Tokens /\ claims[call[c].token] # Nothing
    BY <1>a DEF Admissions, Granted, Covered
  <2>5. consumed' \subseteq consumed \cup {t \in Tokens : claims[t] # Nothing}
    BY <1>3, <2>4 DEF Helper!ReadClaims, Helper!Consume, Helper!Remembered
  <2> QED
    BY <1>a, <2>1, <2>3, <2>5 DEF HelperTypes
<1>4. ASSUME NEW c \in Callers, Helper!Execute(c) PROVE HelperTypes'
  <2> DEFINE past == call[c].token # Nothing /\ claims[call[c].token].expires < now
             new == [by |-> c, action |-> call[c].action, mode |-> call[c].mode, list |-> call[c].list,
                     token |-> call[c].token, fits |-> call[c].fits, life |-> lives, late |-> past]
  <2>1. /\ call[c].pc = "run" /\ Helper!Return(c) /\ ran' = ran \cup {new}
        /\ allowlist' \in {allowlist} \cup Helper!Allowlists /\ UNCHANGED <<now, claims, consumed, lives>>
    BY <1>4 DEF Helper!Execute
  <2>2. call[c] \in Call
    BY <1>a, <2>1 DEF HelperTypes, Helper!Idle
  <2>3. past \in BOOLEAN
    OBVIOUS
  <2>4. new \in Ran
    <3> HIDE DEF past
    <3> QED
      BY <1>a, <2>2, <2>3 DEF HelperTypes, Call, Ran
  <2> HIDE DEF new
  <2>5. call' \in [Callers -> Call \cup {Helper!Idle}]
    BY <1>a, <2>1, Over
  <2> QED
    BY <1>a, <2>1, <2>4, <2>5 DEF HelperTypes
<1>5. CASE Helper!Tick
  BY <1>a, <1>5 DEF Helper!Tick, HelperTypes, Helper!BoundaryConstants
<1>6. CASE Helper!Restart
  BY <1>a, <1>6 DEF Helper!Restart, HelperTypes
<1>7. CASE UNCHANGED Helper!vars
  BY <1>a, <1>7 DEF Helper!vars, HelperTypes
<1> QED
  BY <1>1, <1>2, <1>3, <1>4, <1>5, <1>6, <1>7 DEF Helper!Next

\* What a token says never changes, time does not go back, a run stays in the life it was in.
LEMMA HelperMoves ==
    ASSUME Helper!BoundaryConstants, HelperInv, [Helper!Next]_(Helper!vars)
    PROVE  /\ \A t \in Tokens : claims[t] # Nothing => claims'[t] = claims[t]
           /\ now \in Nat /\ now' \in Nat /\ now <= now' /\ lives \in Nat /\ lives' \in Nat /\ lives <= lives'
<1>a. HelperTypes /\ HelperTypes'
  BY HelperTyped DEF HelperInv
<1>b. now \in Nat /\ now' \in Nat /\ lives \in Nat /\ lives' \in Nat
  BY <1>a DEF HelperTypes, Helper!BoundaryConstants
<1>1. CASE \E t \in Tokens, a \in Helper!KnownActions, life \in {1} : Helper!Mint(t, a, life)
  BY <1>a, <1>b, <1>1 DEF Helper!Mint, HelperTypes
<1>2. CASE \/ Helper!Tick \/ Helper!Restart \/ UNCHANGED Helper!vars
  BY <1>b, <1>2 DEF Helper!Tick, Helper!Restart, Helper!vars
<1>3. CASE \E c \in Callers : Helper!Invoke(c) \/ Helper!ReadClaims(c) \/ Helper!Consume(c) \/ Helper!Execute(c)
  BY <1>b, <1>3 DEF Helper!Invoke, Helper!ReadClaims, Helper!Consume, Helper!Execute
<1> QED
  BY <1>1, <1>2, <1>3 DEF Helper!Next

LEMMA HelperAdmits ==
    ASSUME Helper!BoundaryConstants, HelperInv, [Helper!Next]_(Helper!vars)
    PROVE  Admissions'
<1>a. HelperTypes /\ HelperTypes' /\ Admissions
  BY HelperTyped DEF HelperInv
<1>b. \A t \in Tokens : claims[t] # Nothing => claims'[t] = claims[t]
  BY HelperMoves
\* An invocation, and a run, that stays as it was is as good as it was.
<1>c. ASSUME NEW d \in Callers, call'[d] = call[d]
      PROVE  /\ call'[d].pc # "idle" => Granted(call'[d])
             /\ call'[d].pc \in {"claims", "consume"} => call'[d].mode = "steady"
             /\ call'[d].pc \in {"consume", "run"} => Covered(call[d])'
  BY <1>a, <1>b, <1>c DEF Admissions, Granted, Covered
<1>d. \A r \in ran : Granted(r) /\ Covered(r)'
  BY <1>a, <1>b DEF Admissions, Granted, Covered
<1>1. CASE /\ UNCHANGED <<call, ran>>
  BY <1>1, <1>c, <1>d DEF Admissions, Covered
<1>2. ASSUME NEW c \in Callers, Helper!Invoke(c) PROVE Admissions'
  <2>1. PICK mode \in {"bootstrap", "steady"}, action \in Helper!KnownActions \cup {"other"},
             t \in Tokens \cup {Nothing}, fits \in BOOLEAN, expected \in Helper!Allowlists \cup {Nothing} :
           LET i == Helper!Invocation(mode, action, t, fits, expected)
           IN  /\ Helper!Admitted(i)
               /\ IF mode = "bootstrap" THEN t = Nothing /\ action \in Helper!BootstrapActions ELSE t # Nothing
               /\ call' = [call EXCEPT ![c] = [pc |-> IF mode = "bootstrap" THEN "run" ELSE "claims",
                             mode |-> mode, action |-> action, token |-> t, fits |-> fits,
                             list |-> allowlist, read |-> now]]
    BY <1>2, Zenon DEF Helper!Invoke
  <2>2. action \in allowlist /\ fits = TRUE
    BY <2>1 DEF Helper!Admitted, Helper!Invocation
  <2>3. /\ call'[c].pc = (IF mode = "bootstrap" THEN "run" ELSE "claims") /\ call'[c].mode = mode
        /\ call'[c].action = action /\ call'[c].token = t /\ call'[c].fits = fits /\ call'[c].list = allowlist
        /\ \A d \in Callers \ {c} : call'[d] = call[d]
    BY <1>a, <2>1 DEF HelperTypes
  <2>4. Granted(call'[c])
    BY <2>1, <2>2, <2>3 DEF Granted
  <2>5. ran' = ran
    BY <1>2 DEF Helper!Invoke
  <2>6. /\ call'[c].pc \in {"claims", "consume"} => call'[c].mode = "steady"
        /\ call'[c].pc \in {"consume", "run"} => call'[c].mode # "steady"
    BY <2>3
  <2> QED
    BY <1>c, <1>d, <2>3, <2>4, <2>5, <2>6 DEF Admissions, Covered
<1>3. ASSUME NEW c \in Callers, Helper!ReadClaims(c) \/ Helper!Consume(c) PROVE Admissions'
  <2>1. call[c].pc # "idle" /\ UNCHANGED <<claims, ran>>
    BY <1>3 DEF Helper!ReadClaims, Helper!Consume
  <2>2. \A d \in Callers \ {c} : call'[d] = call[d]
    BY <1>a, <1>3, <2>1, Went, Over DEF Helper!ReadClaims, Helper!Consume
  <2>3. \/ call'[c].pc = "idle"
        \/ /\ call'[c].pc \in {"consume", "run"} /\ Granted(call'[c]) /\ Covered(call[c])' /\ call'[c].mode = "steady"
    <3>1. CASE Helper!ReadClaims(c)
      <4>1. CASE Helper!Valid(call[c])
        <5>1. Helper!Go(c, "consume")
          BY <3>1, <4>1 DEF Helper!ReadClaims
        <5>2. Granted(call[c]) /\ call[c].mode = "steady" /\ Covered(call[c])
          BY <1>a, <3>1, <4>1 DEF Admissions, Helper!ReadClaims, Helper!Valid, Covered
        <5> QED
          BY <1>a, <2>1, <5>1, <5>2, Went DEF Granted, Covered
      <4>2. CASE ~Helper!Valid(call[c])
        BY <1>a, <3>1, <4>2, Over DEF Helper!ReadClaims
      <4> QED
        BY <4>1, <4>2
    <3>2. CASE Helper!Consume(c)
      <4>1. CASE Helper!Go(c, "run")
        <5>1. Granted(call[c]) /\ call[c].mode = "steady" /\ Covered(call[c])
          BY <1>a, <3>2 DEF Admissions, Helper!Consume
        <5> QED
          BY <1>a, <2>1, <4>1, <5>1, Went DEF Granted, Covered
      <4>2. CASE Helper!Return(c)
        BY <1>a, <4>2, Over
      <4> QED
        BY <3>2, <4>1, <4>2 DEF Helper!Consume
    <3> QED
      BY <1>3, <3>1, <3>2
  <2> QED
    BY <1>c, <1>d, <2>1, <2>2, <2>3 DEF Admissions, Covered
<1>4. ASSUME NEW c \in Callers, Helper!Execute(c) PROVE Admissions'
  <2>1. PICK new : /\ ran' = ran \cup {new}
                   /\ new.action = call[c].action /\ new.mode = call[c].mode /\ new.list = call[c].list
                   /\ new.token = call[c].token /\ new.fits = call[c].fits
    <3>1. PICK new : new = [by |-> c, action |-> call[c].action, mode |-> call[c].mode,
                            list |-> call[c].list, token |-> call[c].token, fits |-> call[c].fits,
                            life |-> lives,
                            late |-> call[c].token # Nothing /\ claims[call[c].token].expires < now]
      OBVIOUS
    <3>2. ran' = ran \cup {new}
      BY <1>4, <3>1 DEF Helper!Execute
    <3> QED
      BY <3>1, <3>2
  <2>2. call[c].pc = "run" /\ Helper!Return(c) /\ claims' = claims
    BY <1>4 DEF Helper!Execute
  <2>3. Granted(new) /\ Covered(new)'
    BY <1>a, <2>1, <2>2 DEF Admissions, Granted, Covered
  <2> QED
    BY <1>a, <1>c, <1>d, <2>1, <2>2, <2>3, Over DEF Admissions, Covered
<1>5. CASE Helper!Restart
  <2>1. \A d \in Callers : call'[d].pc = "idle"
    BY <1>5 DEF Helper!Restart, Helper!Idle
  <2> QED
    BY <1>5, <1>d, <2>1 DEF Admissions, Covered, Helper!Restart
<1>6. CASE \/ \E t \in Tokens, a \in Helper!KnownActions, life \in {1} : Helper!Mint(t, a, life)
           \/ Helper!Tick \/ UNCHANGED Helper!vars
  BY <1>1, <1>6 DEF Helper!Mint, Helper!Tick, Helper!vars
<1> QED
  BY <1>2, <1>3, <1>4, <1>5, <1>6 DEF Helper!Next

\* Consume lets a caller pass with a token that nobody carries and that no run of this process
\* used, unless the token has expired; it is consumed from then on, until it expires.
LEMMA HelperOnce ==
    ASSUME Helper!BoundaryConstants, HelperInv, [Helper!Next]_(Helper!vars)
    PROVE  OneUse' /\ Helper!TokenRunsOnce' /\ \A r \in ran' : r.life <= lives'
<1>a. HelperTypes /\ HelperTypes' /\ Admissions /\ OneUse /\ Helper!TokenRunsOnce /\ \A r \in ran : r.life <= lives
  BY HelperTyped DEF HelperInv
<1>b. /\ \A t \in Tokens : claims[t] # Nothing => claims'[t] = claims[t]
      /\ now \in Nat /\ now' \in Nat /\ now <= now' /\ lives \in Nat /\ lives' \in Nat /\ lives <= lives'
  BY HelperMoves
<1>c. ASSUME NEW t \in Tokens, claims[t] # Nothing
      PROVE  Expired(t) <=> claims[t].expires < now
  BY DEF Expired
<1>d. ASSUME NEW t \in Tokens, claims[t] # Nothing, Expired(t) PROVE Expired(t)'
  <2>1. claims[t].expires \in Nat /\ claims'[t] = claims[t]
    BY <1>a, <1>b, <1>d DEF HelperTypes, Claim
  <2> QED
    BY <1>b, <1>d, <2>1 DEF Expired
<1>e. ASSUME NEW t \in Tokens, claims[t] = Nothing
      PROVE  t \notin consumed /\ (\A c \in Callers : ~Carries(c, t)) /\ (\A r \in ran : r.token # t)
  <2>1. \A c \in Callers : ~Carries(c, t)
    <3> SUFFICES ASSUME NEW c \in Callers, Carries(c, t) PROVE FALSE
      OBVIOUS
    <3>1. call[c].pc = "run" /\ call[c].token = t /\ t # Nothing
      BY DEF Carries, Helper!BoundaryConstants
    <3>2. call[c] \in Call
      BY <1>a, <3>1 DEF HelperTypes, Helper!Idle
    <3>3. Granted(call[c]) /\ Covered(call[c])
      BY <1>a, <3>1 DEF Admissions
    <3>4. call[c].mode \in {"bootstrap", "steady"}
      BY <3>2 DEF Call
    <3> QED
      BY <1>e, <3>1, <3>3, <3>4 DEF Granted, Covered
  <2>2. \A r \in ran : r.token # t
    BY <1>a, <1>e DEF Admissions, Granted, Covered, HelperTypes, Helper!BoundaryConstants, Ran
  <2> QED
    BY <1>a, <1>e, <2>1, <2>2 DEF HelperTypes
\* As long as nobody passes and nothing runs, only the clock and the claims move.
<1>1. CASE /\ ran' = ran /\ lives' = lives
           /\ \A c \in Callers, t \in Tokens : Carries(c, t)' => Carries(c, t)
           /\ \A t \in consumed : t \in consumed' \/ Expired(t)'
  <2>1. OneUse'
    <3> SUFFICES ASSUME NEW t \in Tokens, claims'[t] # Nothing, ~Expired(t)'
        PROVE  /\ \A c \in Callers : Carries(c, t)' => t \in consumed'
               /\ \A r \in ran' : Used(r, t)' => t \in consumed'
               /\ \A c, d \in Callers : Carries(c, t)' /\ Carries(d, t)' => c = d
               /\ \A c \in Callers, r \in ran' : ~(Carries(c, t)' /\ Used(r, t)')
      BY DEF OneUse
    <3>1. CASE claims[t] = Nothing
      BY <1>1, <1>e, <3>1 DEF Used
    <3>2. CASE claims[t] # Nothing
      <4>1. ~Expired(t)
        BY <1>d, <3>2
      <4> QED
        BY <1>1, <1>a, <3>2, <4>1 DEF OneUse, Used
    <3> QED
      BY <3>1, <3>2
  <2> QED
    BY <1>1, <1>a, <2>1 DEF Helper!TokenRunsOnce
<1>2. ASSUME NEW c \in Callers, Helper!Invoke(c) PROVE OneUse' /\ Helper!TokenRunsOnce' /\ \A r \in ran' : r.life <= lives'
  <2>1. call'[c].pc = "claims" \/ (call'[c].pc = "run" /\ call'[c].token = Nothing)
    <3>1. PICK mode \in {"bootstrap", "steady"}, action \in Helper!KnownActions \cup {"other"},
               t \in Tokens \cup {Nothing}, fits \in BOOLEAN, expected \in Helper!Allowlists \cup {Nothing} :
             LET i == Helper!Invocation(mode, action, t, fits, expected)
             IN  /\ Helper!Admitted(i)
                 /\ IF mode = "bootstrap" THEN t = Nothing /\ action \in Helper!BootstrapActions ELSE t # Nothing
                 /\ call' = [call EXCEPT ![c] = [pc |-> IF mode = "bootstrap" THEN "run" ELSE "claims",
                               mode |-> mode, action |-> action, token |-> t, fits |-> fits,
                               list |-> allowlist, read |-> now]]
      BY <1>2, Zenon DEF Helper!Invoke
    <3> QED
      BY <1>a, <3>1 DEF HelperTypes
  <2>2. \A d \in Callers \ {c} : call'[d] = call[d]
    BY <1>a, <1>2 DEF Helper!Invoke, HelperTypes
  <2>3. \A d \in Callers, t \in Tokens : Carries(d, t)' => Carries(d, t)
    BY <2>1, <2>2 DEF Carries, Helper!BoundaryConstants
  <2>4. UNCHANGED <<ran, lives, consumed>>
    BY <1>2 DEF Helper!Invoke
  <2> QED
    BY <1>1, <2>3, <2>4
<1>3. ASSUME NEW c \in Callers, Helper!ReadClaims(c) PROVE OneUse' /\ Helper!TokenRunsOnce' /\ \A r \in ran' : r.life <= lives'
  <2>1. call[c].pc # "idle" /\ UNCHANGED <<ran, lives, consumed>>
    BY <1>3 DEF Helper!ReadClaims
  <2>2. call'[c].pc \in {"consume", "idle"} /\ \A d \in Callers \ {c} : call'[d] = call[d]
    BY <1>a, <1>3, <2>1, Went, Over DEF Helper!ReadClaims
  <2>3. \A d \in Callers, t \in Tokens : Carries(d, t)' => Carries(d, t)
    BY <2>2 DEF Carries
  <2> QED
    BY <1>1, <2>1, <2>3
<1>4. ASSUME NEW c \in Callers, Helper!Consume(c) PROVE OneUse' /\ Helper!TokenRunsOnce' /\ \A r \in ran' : r.life <= lives'
  <2>1. PICK t : t = call[c].token
    OBVIOUS
  <2>2. call[c].pc = "consume" /\ UNCHANGED <<now, claims, ran, lives>> /\ t \in Tokens /\ claims[t] # Nothing
    BY <1>a, <1>4, <2>1 DEF Helper!Consume, Admissions, Granted, Covered
  <2>3. \A u \in consumed : u \in Helper!Remembered \/ Expired(u)'
    <3> SUFFICES ASSUME NEW u \in consumed, u \notin Helper!Remembered PROVE Expired(u)'
      OBVIOUS
    <3>1. u \in Tokens /\ claims[u].expires \in Nat /\ ~(claims[u].expires >= now)
      BY <1>a DEF HelperTypes, Claim, Helper!Remembered
    <3> QED
      BY <1>b, <2>2, <3>1 DEF Expired
  <2>4. CASE t \in Helper!Remembered
    <3>1. Helper!Return(c) /\ consumed' = Helper!Remembered
      BY <1>4, <2>1, <2>4 DEF Helper!Consume
    <3>2. \A d \in Callers, u \in Tokens : Carries(d, u)' => Carries(d, u)
      BY <1>a, <3>1, Over DEF Carries
    <3> QED
      BY <1>1, <2>2, <2>3, <3>1, <3>2
  <2>5. CASE t \notin Helper!Remembered
    <3>1. Helper!Go(c, "run") /\ consumed' = Helper!Remembered \cup {t}
      BY <1>4, <2>1, <2>5 DEF Helper!Consume
    <3>2. call'[c].pc = "run" /\ call'[c].token = t /\ \A d \in Callers \ {c} : call'[d] = call[d]
      BY <1>a, <2>1, <2>2, <3>1, Went
    <3>3. \A u \in Tokens : Expired(u)' <=> Expired(u)
      BY <2>2 DEF Expired
    <3>4. Expired(t) \/ t \notin consumed
      BY <2>2, <2>3, <2>5, <3>3
    <3>5. \A d \in Callers, u \in Tokens : Carries(d, u)' => Carries(d, u) \/ (d = c /\ u = t)
      BY <3>2 DEF Carries
    <3>6. \A u \in consumed : u \in consumed' \/ Expired(u)
      BY <1>a, <2>3, <3>1, <3>3 DEF HelperTypes
    <3>7. OneUse'
      <4> SUFFICES ASSUME NEW u \in Tokens, claims[u] # Nothing, ~Expired(u)
          PROVE  /\ \A d \in Callers : Carries(d, u)' => u \in consumed'
                 /\ \A r \in ran : Used(r, u) => u \in consumed'
                 /\ \A d, e \in Callers : Carries(d, u)' /\ Carries(e, u)' => d = e
                 /\ \A d \in Callers, r \in ran : ~(Carries(d, u)' /\ Used(r, u))
        BY <2>2, <3>3 DEF OneUse, Used
      <4>1. CASE u = t
        <5>1. /\ \A d \in Callers : ~Carries(d, t)
              /\ \A r \in ran : ~Used(r, t)
          BY <1>a, <3>4, <4>1 DEF OneUse
        <5> QED
          BY <3>1, <3>5, <4>1, <5>1
      <4>2. CASE u # t
        BY <1>a, <3>5, <3>6, <4>2 DEF OneUse
      <4> QED
        BY <4>1, <4>2
    <3> QED
      BY <1>a, <2>2, <3>7 DEF Helper!TokenRunsOnce
  <2> QED
    BY <2>4, <2>5
<1>5. ASSUME NEW c \in Callers, Helper!Execute(c) PROVE OneUse' /\ Helper!TokenRunsOnce' /\ \A r \in ran' : r.life <= lives'
  <2>1. PICK t : t = call[c].token
    OBVIOUS
  <2>2. PICK new : new = [by |-> c, action |-> call[c].action, mode |-> call[c].mode,
                          list |-> call[c].list, token |-> call[c].token, fits |-> call[c].fits,
                          life |-> lives,
                          late |-> call[c].token # Nothing /\ claims[call[c].token].expires < now]
    OBVIOUS
  <2>3. new.token = t /\ new.life = lives /\ (t \in Tokens /\ ~new.late => ~Expired(t))
    BY <2>1, <2>2 DEF Expired, Helper!BoundaryConstants
  <2>4. /\ call[c].pc = "run" /\ Helper!Return(c) /\ ran' = ran \cup {new}
        /\ UNCHANGED <<now, claims, consumed, lives>>
    BY <1>5, <2>2 DEF Helper!Execute
  <2>5. t \in Tokens => Carries(c, t) /\ claims[t] # Nothing
    BY <1>e, <2>1, <2>4 DEF Carries
  <2>6. \A d \in Callers, u \in Tokens : Carries(d, u)' => Carries(d, u) /\ d # c
    BY <1>a, <2>4, Over DEF Carries
  <2>7. \A u \in Tokens : Expired(u)' <=> Expired(u)
    BY <2>4 DEF Expired
  <2>8. OneUse'
    <3> SUFFICES ASSUME NEW u \in Tokens, claims[u] # Nothing, ~Expired(u)
        PROVE  /\ \A d \in Callers : Carries(d, u)' => u \in consumed
               /\ \A r \in ran' : Used(r, u) => u \in consumed
               /\ \A d, e \in Callers : Carries(d, u)' /\ Carries(e, u)' => d = e
               /\ \A d \in Callers, r \in ran' : ~(Carries(d, u)' /\ Used(r, u))
      BY <2>4, <2>7 DEF OneUse, Used
    <3>1. Used(new, u) => u = t /\ Carries(c, u)
      BY <2>3, <2>5 DEF Used
    <3> QED
      BY <1>a, <2>4, <2>6, <3>1 DEF OneUse
  <2>9. Helper!TokenRunsOnce'
    <3>1. ASSUME NEW r \in ran, t \in Tokens, r.token = t, r.life = lives, ~new.late PROVE FALSE
      BY <1>a, <2>3, <2>5, <3>1 DEF OneUse, Used
    <3>2. t \in Tokens \/ t = Nothing
      <4>1. call[c] \in Call
        BY <1>a, <2>4 DEF HelperTypes, Helper!Idle
      <4> QED
        BY <2>1, <4>1 DEF Call
    <3> QED
      BY <1>a, <2>3, <2>4, <3>1, <3>2 DEF Helper!TokenRunsOnce
  <2>10. \A r \in ran' : r.life <= lives'
    BY <1>a, <1>b, <2>3, <2>4
  <2> QED
    BY <2>8, <2>9, <2>10
<1>6. CASE Helper!Restart
  <2>1. \A d \in Callers : call'[d].pc = "idle"
    BY <1>6 DEF Helper!Restart, Helper!Idle
  <2>2. ran' = ran /\ claims' = claims /\ lives' = lives + 1
    BY <1>6 DEF Helper!Restart
  <2>3. \A r \in ran : r.life \in Nat /\ r.life # lives'
    <3> SUFFICES ASSUME NEW r \in ran PROVE r.life \in Nat /\ r.life # lives'
      OBVIOUS
    <3>1. r \in Ran /\ r.life <= lives
      BY <1>a DEF HelperTypes
    <3>2. r.life \in Nat
      BY <3>1 DEF Ran
    <3> QED
      BY <1>b, <2>2, <3>1, <3>2
  <2>4. OneUse'
    BY <2>1, <2>2, <2>3 DEF OneUse, Carries, Used
  <2>5. \A r \in ran' : r.life <= lives'
    BY <1>a, <1>b, <2>2, <2>3
  <2> QED
    BY <1>a, <2>2, <2>4, <2>5 DEF Helper!TokenRunsOnce
<1>7. CASE \/ \E t \in Tokens, a \in Helper!KnownActions, life \in {1} : Helper!Mint(t, a, life)
           \/ Helper!Tick \/ UNCHANGED Helper!vars
  <2>1. UNCHANGED <<call, ran, lives, consumed>>
    BY <1>7 DEF Helper!Mint, Helper!Tick, Helper!vars
  <2> QED
    BY <1>1, <2>1 DEF Carries
<1> QED
  BY <1>2, <1>3, <1>4, <1>5, <1>6, <1>7 DEF Helper!Next

\* Whoever runs as root ran an entry of the allowlist that was loaded, and without a token only
\* what sets the helper up (privsep, Engine.Run); and of all that race for a token one runs it
\* in a process as long as it has not expired (MemoryTokenStore.Consume).
THEOREM RootRunsAreCovered ==
    ASSUME Helper!BoundaryConstants PROVE Helper!Spec => [](Helper!RunsWereAllowed /\ Helper!TokenRunsOnce)
<1>1. HelperInv => Helper!RunsWereAllowed /\ Helper!TokenRunsOnce
  <2> SUFFICES ASSUME HelperInv, NEW r \in ran
      PROVE  /\ r.action \in r.list /\ r.fits
             /\ IF r.mode = "bootstrap" THEN r.action \in Helper!BootstrapActions
                ELSE r.token # Nothing /\ claims[r.token].action = r.action /\ claims[r.token].list = r.list
    BY DEF HelperInv, Helper!RunsWereAllowed
  <2>1. r \in Ran /\ Granted(r) /\ Covered(r)
    BY DEF HelperInv, HelperTypes, Admissions
  <2>2. r.mode \in {"bootstrap", "steady"}
    BY <2>1 DEF Ran
  <2> QED
    BY <2>1, <2>2 DEF Granted, Covered, Helper!BoundaryConstants
<1>2. HelperInv /\ [Helper!Next]_(Helper!vars) => HelperInv'
  BY HelperTyped, HelperAdmits, HelperOnce DEF HelperInv
<1> QED
  BY <1>1, <1>2, HelperInit, PTL DEF Helper!Spec

-----------------------------------------------------------------------------
(* ConnectionManager.  One call at a time waits for more than the health   *)
(* of the tunnel; while it does no tunnel is open, and what it read of the *)
(* known hosts is what is on file.                                         *)

CONSTANTS Profiles, Keys, None, Beyond, MaxOpens, MaxEvents
VARIABLES state, active, handle, retry, calls, live, tunnels, hosts, events
Desk == INSTANCE ConnectionManager

Goals == {"connect", "retry", "disconnect", ""}
Waits == [at : {"close", "probe", "open", "verify", "listen", "health"}, then : Goals,
          profile : Profiles \cup {None},
          handle : Nat, key : Keys \cup {None}, file : [Profiles -> Keys \cup {None}]]
DeskTypes ==
    /\ state \in Desk!States /\ active \in Profiles \cup {None} /\ retry \in BOOLEAN
    /\ tunnels \in Seq([profile : Profiles, key : Keys \cup {None}])
    /\ handle \in 0 .. Len(tunnels) /\ live \subseteq 1 .. Len(tunnels)
    /\ calls \subseteq Waits /\ \A c \in calls : c.handle <= Len(tunnels)
    /\ hosts \in [Profiles -> Keys \cup {None}] /\ events \in 0 .. MaxEvents

\* A call that opens a tunnel: the old one is closed, and the host is that of the profile in use.
Opening(c) == c.at \in {"probe", "open", "verify", "listen"}
OneAtATime == \A c, d \in calls : c.at # "health" /\ d.at # "health" => c = d
Prepared(c) ==
    /\ c.at # "health" => live = {}
    /\ c.at = "close" => /\ c.then \in {"connect", "retry", "disconnect"}
                         /\ c.then = "connect" => c.profile \in Profiles
                         /\ c.then = "retry" => active \in Profiles
    /\ Opening(c) => /\ handle = 0 /\ c.profile = active /\ active \in Profiles
                     /\ c.then \in {"connect", "retry"}
    /\ c.at = "verify" => c.file = hosts
    /\ c.at = "listen" => c.key = hosts[c.profile]
\* With nothing being closed, there is a tunnel where one is shown.
Shown ==
    (\A c \in calls : c.at # "close") =>
        /\ handle # 0 <=> state \in {"ready", "degraded"}
        /\ handle # 0 => handle \in live /\ tunnels[handle].profile = active
DeskInv ==
    /\ DeskTypes /\ OneAtATime /\ Shown
    /\ \A c \in calls : Prepared(c)
    /\ live \subseteq {handle} /\ Desk!OpenedIsTrusted

LEMMA DeskInit == ASSUME Desk!DesktopConstants PROVE Desk!Init => DeskInv
  <1> SUFFICES ASSUME Desk!Init PROVE DeskInv
    OBVIOUS
  <1>1. DeskTypes
    <2>1. /\ state = "unconfigured" /\ active = None /\ handle = 0 /\ retry = FALSE /\ calls = {}
          /\ live = {} /\ tunnels = <<>> /\ hosts = [p \in Profiles |-> None] /\ events = 0
      BY DEF Desk!Init
    <2>2. tunnels \in Seq([profile : Profiles, key : Keys \cup {None}]) /\ Len(tunnels) = 0
      BY <2>1
    <2>3. hosts \in [Profiles -> Keys \cup {None}]
      BY <2>1
    <2>4. state \in Desk!States /\ 0 \in 0 .. MaxEvents
      BY <2>1 DEF Desk!States, Desk!DesktopConstants
    <2>5. retry \in BOOLEAN
      BY <2>1, Zenon
    <2>6. handle \in 0 .. Len(tunnels) /\ live \subseteq 1 .. Len(tunnels)
      BY <2>1, <2>2
    <2>7. calls \subseteq Waits /\ \A c \in calls : c.handle <= Len(tunnels)
      BY <2>1
    <2> QED
      BY <2>1, <2>2, <2>3, <2>4, <2>5, <2>6, <2>7 DEF DeskTypes
  <1>2. OneAtATime /\ Shown /\ Desk!OpenedIsTrusted /\ live \subseteq {handle}
    BY DEF Desk!Init, OneAtATime, Shown, Desk!OpenedIsTrusted
  <1>3. \A c \in calls : Prepared(c)
    BY DEF Desk!Init
  <1> QED
    BY <1>1, <1>2, <1>3 DEF DeskInv

\* What a call that waits is made of.
LEMMA CallWaits ==
    ASSUME hosts \in [Profiles -> Keys \cup {None}], NEW at \in {"close", "probe", "open", "health"},
           NEW what \in Goals, NEW p \in Profiles \cup {None}
    PROVE  Desk!Call(at, what, p) \in Waits
  BY DEF Desk!Call, Waits
LEMMA GoalsAre == {"connect", "retry", "disconnect"} \subseteq Goals
  BY Zenon DEF Goals

\* Whoever marks the connection as broken leaves no tunnel, and does not touch the calls.
LEMMA MarkKeepsDesk ==
    ASSUME DeskInv, NEW to \in {"reconnecting"} \cup Desk!Paused, Desk!Mark(to),
           calls' \subseteq calls,
           active' = active, tunnels' = tunnels, hosts' = hosts, events' \in 0 .. MaxEvents
    PROVE  DeskInv'
  <1>1. handle' = 0 /\ state' = to /\ retry' = (to = "reconnecting") /\ live' = live \ {handle}
    BY DEF Desk!Mark
  <1>2. live' = {}
    BY <1>1 DEF DeskInv
  <1>3. to \in Desk!States /\ to \notin {"ready", "degraded"}
    BY DEF Desk!Paused, Desk!States
  <1>4. DeskTypes'
    BY <1>1, <1>2, <1>3 DEF DeskInv, DeskTypes
  <1>5. OneAtATime' /\ Shown' /\ Desk!OpenedIsTrusted'
    BY <1>1, <1>2, <1>3 DEF DeskInv, OneAtATime, Shown, Desk!OpenedIsTrusted
  <1>6. \A d \in calls' : Prepared(d)'
    BY <1>1, <1>2, <1>3 DEF DeskInv, Prepared, Opening
  <1> QED
    BY <1>1, <1>2, <1>4, <1>5, <1>6 DEF DeskInv

\* A call begins once the tunnel before it is closed.
LEMMA BeginKeepsDesk ==
    ASSUME DeskInv, NEW c, Desk!Begin(c), live = {}, live' = {},
           \A d \in calls : d = c \/ d.at = "health",
           c.then \in {"connect", "retry", "disconnect"},
           c.then = "connect" => c.profile \in Profiles,
           c.then = "retry" => active \in Profiles,
           UNCHANGED <<tunnels, hosts, events>>
    PROVE  DeskInv'
<1>1. CASE c.then = "disconnect"
  <2>1. /\ handle' = 0 /\ state' = "disconnected" /\ retry' = FALSE
        /\ calls' = calls \ {c} /\ active' = active
    BY <1>1 DEF Desk!Begin, Desk!Goes
  <2>2. DeskTypes'
    <3>1. state' \in Desk!States /\ retry' \in BOOLEAN
      BY <2>1 DEF Desk!States
    <3> QED
      BY <2>1, <3>1 DEF DeskInv, DeskTypes
  <2>3. OneAtATime' /\ Shown' /\ Desk!OpenedIsTrusted'
    BY <2>1 DEF DeskInv, OneAtATime, Shown, Desk!OpenedIsTrusted
  <2>4. \A d \in calls' : Prepared(d)'
    BY <2>1 DEF DeskInv, Prepared, Opening
  <2> QED
    BY <2>2, <2>3, <2>4 DEF DeskInv
<1>2. ASSUME c.then # "disconnect" PROVE DeskInv'
  <2> DEFINE p == IF c.then = "connect" THEN c.profile ELSE active
             d == Desk!Call(IF c.then = "connect" THEN "probe" ELSE "open", c.then, p)
  <2>1. /\ handle' = 0 /\ calls' = (calls \ {c}) \cup {d} /\ active' = p
        /\ state' \in {"ssh_probing", "tunnel_connecting"} /\ retry' \in {FALSE, retry}
    BY <1>2 DEF Desk!Begin, Desk!Goes
  <2>2. p \in Profiles
    BY <1>2
  <2>3. /\ d.at \in {"probe", "open"} /\ d.then = c.then /\ d.then \in {"connect", "retry"}
        /\ d.profile = p /\ d.handle = 0 /\ d.key = None /\ d.file = hosts
    BY <1>2 DEF Desk!Call
  <2>4. d \in Waits
    <3>1. hosts \in [Profiles -> Keys \cup {None}]
      BY DEF DeskInv, DeskTypes
    <3>2. (IF c.then = "connect" THEN "probe" ELSE "open") \in {"close", "probe", "open", "health"}
      OBVIOUS
    <3>3. c.then \in Goals
      BY GoalsAre
    <3> HIDE DEF p
    <3>4. \A at \in {"close", "probe", "open", "health"} : Desk!Call(at, c.then, p) \in Waits
      BY <2>2, <3>1, <3>3, CallWaits, Zenon
    <3> QED
      BY <3>2, <3>4, Zenon
  <2> HIDE DEF d, p
  <2>5. DeskTypes'
    <3>1. state' \in Desk!States
      BY <2>1 DEF Desk!States
    <3>2. retry' \in BOOLEAN
      BY <2>1, Zenon DEF DeskInv, DeskTypes
    <3>3. calls' \subseteq Waits /\ \A e \in calls' : e.handle <= Len(tunnels')
      BY <2>1, <2>3, <2>4 DEF DeskInv, DeskTypes
    <3> QED
      BY <2>1, <2>2, <3>1, <3>2, <3>3 DEF DeskInv, DeskTypes
  <2>6. OneAtATime' /\ Shown' /\ Desk!OpenedIsTrusted'
    BY <2>1, <2>3 DEF DeskInv, OneAtATime, Shown, Desk!OpenedIsTrusted
  <2>7. \A e \in calls' : Prepared(e)'
    BY <2>1, <2>2, <2>3 DEF DeskInv, Prepared, Opening
  <2> QED
    BY <2>1, <2>5, <2>6, <2>7 DEF DeskInv
<1> QED
  BY <1>1, <1>2

LEMMA StartsKeepsDesk ==
    ASSUME DeskInv, Desk!DesktopConstants, NEW what \in {"connect", "retry", "disconnect"},
           NEW p \in Profiles \cup {None}, Desk!Starts(what, p),
           what = "connect" => p \in Profiles, what = "retry" => active \in Profiles
    PROVE  DeskInv'
<1>1. \A c \in calls : c.at = "health"
  <2>1. Desk!Alone
    BY Zenon DEF Desk!Starts
  <2> QED
    BY <2>1 DEF Desk!Alone, Desk!Waiting, Desk!DesktopConstants
<1>2. CASE handle = 0
  <2> DEFINE c == Desk!Call("", what, p)
  <2>1. Desk!Begin(c) /\ live' = live /\ UNCHANGED <<tunnels, hosts, events>>
    BY <1>2, Zenon DEF Desk!Starts
  <2>2. live = {}
    BY <1>2 DEF DeskInv, DeskTypes
  <2>3. c.then = what /\ c.profile = p
    BY DEF Desk!Call
  <2> HIDE DEF c
  <2> QED
    BY <1>1, <2>1, <2>2, <2>3, BeginKeepsDesk
<1>3. CASE handle # 0
  <2> DEFINE c == Desk!Call("close", what, p)
  <2>1. /\ live' = live \ {handle} /\ calls' = calls \cup {c}
        /\ UNCHANGED <<state, active, handle, retry, tunnels, hosts, events>>
    BY <1>3 DEF Desk!Starts
  <2>2. live' = {}
    BY <2>1 DEF DeskInv
  <2>3. /\ c.at = "close" /\ c.then = what /\ c.profile = p /\ c.handle = 0
    BY DEF Desk!Call
  <2>4. c \in Waits
    <3>1. hosts \in [Profiles -> Keys \cup {None}]
      BY DEF DeskInv, DeskTypes
    <3>2. what \in Goals
      BY GoalsAre
    <3> QED
      BY <3>1, <3>2, CallWaits
  <2> HIDE DEF c
  <2>5. DeskTypes'
    BY <2>1, <2>2, <2>3, <2>4 DEF DeskInv, DeskTypes
  <2>6. OneAtATime' /\ Shown' /\ Desk!OpenedIsTrusted'
    BY <1>1, <2>1, <2>2, <2>3 DEF DeskInv, OneAtATime, Shown, Desk!OpenedIsTrusted
  <2>7. \A e \in calls' : Prepared(e)'
    BY <1>1, <2>1, <2>2, <2>3 DEF DeskInv, Prepared, Opening
  <2> QED
    BY <2>1, <2>2, <2>5, <2>6, <2>7 DEF DeskInv
<1> QED
  BY <1>2, <1>3

\* A call that goes on with opening a tunnel is still the only one.
LEMMA GoingOnKeepsDesk ==
    ASSUME DeskInv, NEW c \in calls, Opening(c), NEW d \in Waits, Opening(d),
           d.profile = c.profile, d.then = c.then, d.handle = c.handle,
           calls' = (calls \ {c}) \cup {d},
           state' \in Desk!States \ {"ready", "degraded"},
           hosts' \in [Profiles -> Keys \cup {None}],
           d.at = "verify" => d.file = hosts', d.at = "listen" => d.key = hosts'[d.profile],
           UNCHANGED <<active, handle, retry, live, tunnels, events>>
    PROVE  DeskInv'
<1>1. live = {} /\ handle = 0
  BY DEF DeskInv, Prepared, Opening
<1>2. \A e \in calls : e = c \/ e.at = "health"
  BY DEF DeskInv, OneAtATime, Opening
<1>3. DeskTypes'
  <2>1. calls' \subseteq Waits /\ \A e \in calls' : e.handle <= Len(tunnels')
    BY DEF DeskInv, DeskTypes
  <2>2. state' \in Desk!States
    OBVIOUS
  <2> QED
    BY <2>1, <2>2 DEF DeskInv, DeskTypes
<1>4. OneAtATime' /\ Shown' /\ Desk!OpenedIsTrusted'
  <2>1. OneAtATime'
    BY <1>2 DEF OneAtATime
  <2>2. Shown' /\ Desk!OpenedIsTrusted'
    BY <1>1 DEF Shown, Desk!OpenedIsTrusted
  <2> QED
    BY <2>1, <2>2
<1>5. \A e \in calls' : Prepared(e)'
  <2>1. Prepared(c)
    BY DEF DeskInv
  <2>2. Prepared(d)'
    BY <1>1, <2>1 DEF Prepared, Opening
  <2>3. \A e \in calls \ {c} : Prepared(e)'
    BY <1>2 DEF Prepared, Opening
  <2> QED
    BY <2>2, <2>3
<1> QED
  BY <1>1, <1>3, <1>4, <1>5 DEF DeskInv

\* A call that ends without a tunnel, and one that fails.
LEMMA EndingKeepsDesk ==
    ASSUME DeskInv, NEW c \in calls, c.at # "close", calls' = calls \ {c},
           UNCHANGED <<state, active, handle, retry, live, tunnels, hosts, events>>
    PROVE  DeskInv'
<1>1. DeskTypes'
  BY DEF DeskInv, DeskTypes
<1>2. OneAtATime' /\ Shown' /\ Desk!OpenedIsTrusted'
  BY DEF DeskInv, OneAtATime, Shown, Desk!OpenedIsTrusted
<1>3. \A e \in calls' : Prepared(e)'
  BY DEF DeskInv, Prepared, Opening
<1> QED
  BY <1>1, <1>2, <1>3 DEF DeskInv

LEMMA FailingKeepsDesk ==
    ASSUME DeskInv, NEW c \in calls, c.at # "close", Desk!Fails(c),
           UNCHANGED <<active, tunnels, hosts, events>>
    PROVE  DeskInv'
<1>1. calls' = calls \ {c} /\ events' \in 0 .. MaxEvents
  BY DEF Desk!Fails, Desk!Goes, DeskInv, DeskTypes
<1>2. CASE c.then = "connect"
  <2>1. Desk!Mark("reconnecting")
    BY <1>2 DEF Desk!Fails
  <2> QED
    BY <1>1, <2>1, MarkKeepsDesk
<1>3. CASE c.then # "connect"
  BY <1>1, <1>3, EndingKeepsDesk DEF Desk!Fails
<1> QED
  BY <1>2, <1>3

\* Of the calls that wait, each keeps the invariant as it goes on.
LEMMA CallsKeepDesk ==
    ASSUME DeskInv, NEW c \in calls,
           \/ Desk!Closed(c) \/ Desk!Probed(c) \/ Desk!HealthAnswers(c)
           \/ Desk!Reads(c) \/ Desk!Verifies(c) \/ Desk!OpenFails(c) \/ Desk!Opened(c)
    PROVE  DeskInv'
<1>0. c \in Waits /\ hosts \in [Profiles -> Keys \cup {None}] /\ Prepared(c) /\ events \in 0 .. MaxEvents
  BY DEF DeskInv, DeskTypes
<1>1. CASE Desk!Closed(c)
  <2>1. c.at = "close" /\ Desk!Begin(c) /\ UNCHANGED <<live, tunnels, hosts, events>>
    BY <1>1 DEF Desk!Closed
  <2>2. live = {} /\ \A d \in calls : d = c \/ d.at = "health"
    BY <1>0, <2>1 DEF DeskInv, OneAtATime, Prepared
  <2> QED
    BY <1>0, <2>1, <2>2, BeginKeepsDesk DEF Prepared
<1>2. CASE Desk!Probed(c)
  <2>1. CASE Desk!Goes(c, {}) /\ UNCHANGED state
    BY <1>2, <2>1, EndingKeepsDesk DEF Desk!Probed, Desk!Goes
  <2>2. CASE state' = "tunnel_connecting" /\ Desk!Goes(c, {[c EXCEPT !.at = "open"]})
    <3>1. PICK d : d = [c EXCEPT !.at = "open"]
      OBVIOUS
    <3>2. /\ d \in Waits /\ d.at = "open"
          /\ d.profile = c.profile /\ d.then = c.then /\ d.handle = c.handle
      BY <1>0, <3>1 DEF Waits
    <3>3. state' \in Desk!States \ {"ready", "degraded"}
      BY <2>2 DEF Desk!States
    <3> QED
      BY <1>0, <1>2, <2>2, <3>1, <3>2, <3>3, GoingOnKeepsDesk DEF Desk!Probed, Desk!Goes, Opening
  <2> QED
    BY <1>2, <2>1, <2>2 DEF Desk!Probed
<1>3. CASE Desk!HealthAnswers(c)
  <2>1. c.at = "health" /\ calls' = calls \ {c} /\ UNCHANGED <<active, tunnels, hosts, events>>
    BY <1>3 DEF Desk!HealthAnswers, Desk!Goes
  <2>2. CASE UNCHANGED <<state, handle, retry, live>>
    BY <2>1, <2>2, EndingKeepsDesk
  <2>3. CASE Desk!Mark("reconnecting")
    BY <1>0, <2>1, <2>3, MarkKeepsDesk
  <2> QED
    BY <1>3, <2>2, <2>3 DEF Desk!HealthAnswers
<1>4. CASE Desk!Reads(c)
  <2>1. PICK key \in Keys : calls' = (calls \ {c}) \cup {[c EXCEPT !.at = "verify", !.key = key, !.file = hosts]}
    BY <1>4, Zenon DEF Desk!Reads, Desk!Goes
  <2>2. PICK d : d = [c EXCEPT !.at = "verify", !.key = key, !.file = hosts]
    OBVIOUS
  <2>3. /\ d \in Waits /\ d.at = "verify" /\ d.file = hosts
        /\ d.profile = c.profile /\ d.then = c.then /\ d.handle = c.handle
    BY <1>0, <2>2 DEF Waits
  <2>4. c.at = "open" /\ UNCHANGED <<state, active, handle, retry, live, tunnels, hosts, events>>
    BY <1>4, Zenon DEF Desk!Reads
  <2>5. state' \in Desk!States \ {"ready", "degraded"}
    <3>1. handle = 0 /\ \A e \in calls : e.at # "close"
      BY <1>0, <2>4 DEF Prepared, Opening, DeskInv, OneAtATime
    <3> QED
      BY <2>4, <3>1 DEF DeskInv, DeskTypes, Shown
  <2> QED
    BY <1>0, <2>1, <2>2, <2>3, <2>4, <2>5, GoingOnKeepsDesk DEF Opening
<1>5. CASE Desk!Verifies(c)
  <2>1. c.at = "verify" /\ c.file = hosts /\ c.profile \in Profiles /\ UNCHANGED <<active, tunnels, events>>
    BY <1>0, <1>5 DEF Desk!Verifies, Prepared, Opening
  <2>2. CASE Desk!Goes(c, {[c EXCEPT !.at = "listen"]})
    <3>1. PICK d : d = [c EXCEPT !.at = "listen"]
      OBVIOUS
    <3>2. /\ d \in Waits /\ d.at = "listen" /\ d.key = c.key
          /\ d.profile = c.profile /\ d.then = c.then /\ d.handle = c.handle
      BY <1>0, <3>1 DEF Waits
    <3>3. /\ UNCHANGED <<state, handle, retry, live>>
          /\ hosts' \in [Profiles -> Keys \cup {None}] /\ c.key = hosts'[c.profile]
      <4>1. c.key \in Keys \cup {None}
        BY <1>0 DEF Waits
      <4>2. calls' = (calls \ {c}) \cup {d} /\ c \in calls /\ d \notin {c}
        BY <2>1, <2>2, <3>1, <3>2 DEF Desk!Goes
      <4>3. ~Desk!Fails(c)
        BY <4>2, <2>1, <3>2 DEF Desk!Fails, Desk!Goes, DeskInv, OneAtATime
      <4> QED
        BY <1>0, <1>5, <2>1, <4>1, <4>3 DEF Desk!Verifies, Desk!IsFirstUse, Desk!IsExpected
    <3>4. state' \in Desk!States \ {"ready", "degraded"}
      <4>1. handle = 0 /\ \A e \in calls : e.at # "close"
        BY <1>0, <2>1 DEF Prepared, Opening, DeskInv, OneAtATime
      <4> QED
        BY <3>3, <4>1 DEF DeskInv, DeskTypes, Shown
    <3> QED
      BY <2>1, <2>2, <3>1, <3>2, <3>3, <3>4, GoingOnKeepsDesk DEF Opening, Desk!Goes
  <2>3. CASE Desk!Fails(c) /\ UNCHANGED hosts
    BY <2>1, <2>3, FailingKeepsDesk
  <2> QED
    BY <1>5, <2>2, <2>3 DEF Desk!Verifies
<1>6. CASE Desk!OpenFails(c)
  BY <1>6, FailingKeepsDesk DEF Desk!OpenFails
<1>7. CASE Desk!Opened(c)
  <2> PICK n : n = Len(tunnels) + 1
    OBVIOUS
  <2> PICK t : t = [profile |-> c.profile, key |-> c.key]
    OBVIOUS
  <2>1. /\ c.at = "listen" /\ tunnels' = Append(tunnels, t) /\ calls' = calls \ {c}
        /\ handle' = Len(tunnels') /\ live' = live \cup {handle'} /\ state' = "ready"
        /\ UNCHANGED <<active, hosts, events>>
    BY <1>7 DEF Desk!Opened, Desk!Goes
  <2>2. /\ live = {} /\ c.profile = active /\ active \in Profiles /\ c.key = hosts[c.profile]
        /\ \A e \in calls : e = c \/ e.at = "health"
    BY <1>0, <2>1 DEF Prepared, Opening, DeskInv, OneAtATime
  <2>3. t \in [profile : Profiles, key : Keys \cup {None}] /\ t.profile = active /\ t.key = hosts[active]
    BY <1>0, <2>2 DEF Waits
  <2>4. /\ tunnels \in Seq([profile : Profiles, key : Keys \cup {None}])
        /\ Len(tunnels) \in Nat
    BY DEF DeskInv, DeskTypes
  <2>5. /\ tunnels' \in Seq([profile : Profiles, key : Keys \cup {None}])
        /\ Len(tunnels') = n /\ tunnels'[n] = t /\ handle' = n /\ live' = {n} /\ n \in Nat /\ n >= 1
    BY <2>1, <2>2, <2>3, <2>4
  <2>6. retry' \in BOOLEAN
    <3>1. retry' = (c.then = "connect" /\ retry)
      BY <1>7 DEF Desk!Opened
    <3> QED
      BY <3>1, Zenon
  <2>7. DeskTypes'
    <3>1. calls' \subseteq Waits /\ \A e \in calls' : e.handle <= Len(tunnels')
      <4>1. \A e \in Waits : e.handle \in Nat
        BY DEF Waits
      <4> QED
        BY <2>1, <2>4, <2>5, <4>1 DEF DeskInv, DeskTypes
    <3>2. state' \in Desk!States
      BY <2>1 DEF Desk!States
    <3>3. handle' \in 0 .. Len(tunnels') /\ live' \subseteq 1 .. Len(tunnels')
      BY <2>5
    <3> QED
      BY <1>0, <2>1, <2>2, <2>5, <2>6, <3>1, <3>2, <3>3 DEF DeskInv, DeskTypes
  <2>8. OneAtATime' /\ Shown' /\ Desk!OpenedIsTrusted'
    BY <2>1, <2>2, <2>3, <2>5 DEF OneAtATime, Shown, Desk!OpenedIsTrusted
  <2>9. \A e \in calls' : Prepared(e)'
    BY <2>1, <2>2 DEF Prepared, Opening
  <2> QED
    BY <2>5, <2>7, <2>8, <2>9 DEF DeskInv
<1> QED
  BY <1>1, <1>2, <1>3, <1>4, <1>5, <1>6, <1>7

\* Asking for the health of a tunnel disturbs nobody.
LEMMA CheckKeepsDesk ==
    ASSUME DeskInv, NEW none \in Goals,
           calls' = calls \cup {[Desk!Call("health", none, active) EXCEPT !.handle = handle]},
           UNCHANGED <<state, active, handle, retry, live, tunnels, hosts, events>>
    PROVE  DeskInv'
<1>0. /\ active \in Profiles \cup {None} /\ hosts \in [Profiles -> Keys \cup {None}]
      /\ handle <= Len(tunnels) /\ handle \in Nat
  BY DEF DeskInv, DeskTypes
<1> PICK d : d = [Desk!Call("health", none, active) EXCEPT !.handle = handle]
  OBVIOUS
<1>1. d \in Waits /\ d.at = "health" /\ d.handle = handle
  <2>1. Desk!Call("health", none, active) \in Waits
    BY <1>0, CallWaits
  <2>2. Desk!Call("health", none, active).at = "health"
    BY DEF Desk!Call
  <2> QED
    BY <1>0, <2>1, <2>2 DEF Waits
<1>2. DeskTypes'
  <2>1. calls' \subseteq Waits /\ \A e \in calls' : e.handle <= Len(tunnels')
    BY <1>0, <1>1 DEF DeskInv, DeskTypes
  <2> QED
    BY <2>1 DEF DeskInv, DeskTypes
<1>3. OneAtATime' /\ Shown' /\ Desk!OpenedIsTrusted'
  BY <1>1 DEF DeskInv, OneAtATime, Shown, Desk!OpenedIsTrusted
<1>4. \A e \in calls' : Prepared(e)'
  BY <1>1 DEF DeskInv, Prepared, Opening
<1> QED
  BY <1>2, <1>3, <1>4 DEF DeskInv

LEMMA DeskStep == ASSUME Desk!DesktopConstants PROVE DeskInv /\ [Desk!Next]_(Desk!vars) => DeskInv'
<1> SUFFICES ASSUME Desk!DesktopConstants, DeskInv, [Desk!Next]_(Desk!vars) PROVE DeskInv'
  OBVIOUS
<1>0. active \in Profiles \cup {None} /\ hosts \in [Profiles -> Keys \cup {None}] /\ events \in 0 .. MaxEvents
  BY DEF DeskInv, DeskTypes
<1>1. ASSUME NEW p \in Profiles, Desk!Connect(p) PROVE DeskInv'
  BY <1>1, StartsKeepsDesk DEF Desk!Connect
<1>2. CASE Desk!RetryNow
  BY <1>0, <1>2, StartsKeepsDesk DEF Desk!RetryNow
<1>3. CASE Desk!Disconnect
  BY <1>0, <1>3, StartsKeepsDesk DEF Desk!Disconnect
<1>4. CASE Desk!Event
  <2>1. PICK to \in {"reconnecting"} \cup Desk!Paused : Desk!Mark(to)
    BY <1>4 DEF Desk!Event
  <2>2. /\ calls' \subseteq calls /\ active' = active /\ tunnels' = tunnels /\ hosts' = hosts
        /\ events' \in 0 .. MaxEvents
    BY <1>0, <1>4 DEF Desk!Event, Desk!DesktopConstants
  <2> QED
    BY <2>1, <2>2, MarkKeepsDesk
<1>5. CASE Desk!MarkVersionMismatch
  <2>1. /\ handle # 0 /\ state' = "degraded"
        /\ UNCHANGED <<active, handle, retry, calls, live, tunnels, hosts, events>>
    BY <1>5 DEF Desk!MarkVersionMismatch, Desk!DesktopConstants
  <2>2. DeskTypes'
    BY <2>1 DEF DeskInv, DeskTypes, Desk!States
  <2>3. OneAtATime' /\ Shown' /\ Desk!OpenedIsTrusted'
    BY <2>1 DEF DeskInv, OneAtATime, Shown, Desk!OpenedIsTrusted
  <2>4. \A e \in calls' : Prepared(e)'
    BY <2>1 DEF DeskInv, Prepared, Opening
  <2> QED
    BY <2>1, <2>2, <2>3, <2>4 DEF DeskInv
<1>6. CASE Desk!CheckHealth
  <2>1. "" \in Goals
    BY Zenon DEF Goals
  <2>2. /\ calls' = calls \cup {[Desk!Call("health", "", active) EXCEPT !.handle = handle]}
        /\ UNCHANGED <<state, active, handle, retry, live, tunnels, hosts, events>>
    BY <1>6, Zenon DEF Desk!CheckHealth
  <2> QED
    BY <2>1, <2>2, CheckKeepsDesk, Zenon
<1>7. ASSUME NEW c \in calls,
             \/ Desk!Closed(c) \/ Desk!Probed(c) \/ Desk!HealthAnswers(c)
             \/ Desk!Reads(c) \/ Desk!Verifies(c) \/ Desk!OpenFails(c) \/ Desk!Opened(c)
      PROVE  DeskInv'
  BY <1>7, CallsKeepDesk
<1>8. CASE UNCHANGED Desk!vars
  <2>1. UNCHANGED <<state, active, handle, retry, calls, live, tunnels, hosts, events>>
    BY <1>8 DEF Desk!vars
  <2>2. DeskTypes' /\ OneAtATime' /\ Shown' /\ Desk!OpenedIsTrusted'
    BY <2>1 DEF DeskInv, DeskTypes, OneAtATime, Shown, Desk!OpenedIsTrusted
  <2>3. \A e \in calls' : Prepared(e)'
    BY <2>1 DEF DeskInv, Prepared, Opening
  <2> QED
    BY <2>1, <2>2, <2>3 DEF DeskInv
<1> QED
  BY <1>1, <1>2, <1>3, <1>4, <1>5, <1>6, <1>7, <1>8 DEF Desk!Next

\* Of the desktop's tunnels at most one is open; it is the one that is shown, of the profile in
\* use, and goes to a host whose key is the one on file for it (ConnectionManager.ts).
THEOREM OneTrustedTunnel ==
    ASSUME Desk!DesktopConstants
    PROVE  Desk!Spec => [](Desk!UsableHasHandle /\ Desk!HandlesAreClosed /\ Desk!OpenedIsTrusted)
<1>1. DeskInv => Desk!UsableHasHandle /\ Desk!HandlesAreClosed /\ Desk!OpenedIsTrusted
  BY DEF DeskInv, Shown, Desk!UsableHasHandle, Desk!HandlesAreClosed, Desk!Waiting
<1> QED
  BY <1>1, DeskInit, DeskStep, PTL DEF Desk!Spec

\* The key a host was first trusted with is never replaced or forgotten (KnownHostStore).
THEOREM TrustAlwaysKept ==
    ASSUME Desk!DesktopConstants PROVE Desk!Spec => [][Desk!TrustIsKept]_(Desk!vars)
<1>1. DeskInv /\ [Desk!Next]_(Desk!vars) => [Desk!TrustIsKept]_(Desk!vars)
  <2> SUFFICES ASSUME DeskInv, Desk!Next, NEW p \in Profiles, hosts[p] # None PROVE hosts'[p] = hosts[p]
    BY DEF Desk!TrustIsKept
  <2>1. ASSUME NEW c \in calls, Desk!Verifies(c) PROVE hosts'[p] = hosts[p]
    <3>1. c \in Waits /\ c.file = hosts /\ c.profile \in Profiles
      <4>1. c.at = "verify" /\ Prepared(c) /\ c \in Waits
        BY <2>1 DEF Desk!Verifies, DeskInv, DeskTypes
      <4> QED
        BY <4>1 DEF Prepared, Opening
    <3> QED
      BY <2>1, <3>1 DEF Desk!Verifies, Desk!IsFirstUse, DeskInv, DeskTypes
  <2>2. ASSUME NEW c \in calls,
               \/ Desk!Closed(c) \/ Desk!Probed(c) \/ Desk!HealthAnswers(c)
               \/ Desk!Reads(c) \/ Desk!OpenFails(c) \/ Desk!Opened(c)
        PROVE  hosts' = hosts
    BY <2>2, Zenon DEF Desk!Closed, Desk!Probed, Desk!HealthAnswers, Desk!Reads, Desk!OpenFails, Desk!Opened
  <2>3. ASSUME NEW what, NEW q, Desk!Starts(what, q) PROVE hosts' = hosts
    BY <2>3, Zenon DEF Desk!Starts
  <2>4. CASE (\E q \in Profiles : Desk!Connect(q)) \/ Desk!RetryNow \/ Desk!Disconnect
    BY <2>3, <2>4, Zenon DEF Desk!Connect, Desk!RetryNow, Desk!Disconnect
  <2>5. CASE Desk!Event \/ Desk!MarkVersionMismatch \/ Desk!CheckHealth
    BY <2>5, Zenon DEF Desk!Event, Desk!MarkVersionMismatch, Desk!CheckHealth
  <2> QED
    BY <2>1, <2>2, <2>4, <2>5 DEF Desk!Next
<1> QED
  BY <1>1, DeskInit, DeskStep, PTL DEF Desk!Spec

-----------------------------------------------------------------------------
(* Provisioning.  A caller that has found no server of its name is the     *)
(* only one that makes one until it has been answered.                     *)

CONSTANTS Names, MaxServers, MaxCalls
VARIABLES kind, servers, keys, made, faults, leaks
Rent == INSTANCE Provisioning

Verdicts == {"created", "failed", "destroyed", ""}
Rental == [step : {"idle", "find", "list", "key", "compute", "cleanup", "audit", "answered"},
           name : Names \cup {Nothing}, key : Nat \cup {Nothing}, own : BOOLEAN, id : Nat,
           error : BOOLEAN, answer : Verdicts]
Server == [name : Names, key : Nat, state : {"active", "deleted", "cancelled"}]
RentTypes ==
    /\ kind \in {"contabo", "ovh"} /\ made \in Nat /\ keys \subseteq 0 .. made
    /\ servers \in Seq(Server) /\ call \in [Callers -> Rental]

Apart ==
    \A c, d \in Callers :
        call[c].step # "idle" /\ call[d].step # "idle" /\ call[c].name = call[d].name => c = d
\* The key that is removed when a create fails is one it made itself.
OwnKey(c) ==
    /\ call[c].step # "idle" => call[c].name \in Names
    /\ call[c].step \in {"find", "list", "key"} => ~call[c].own
    /\ call[c].own => call[c].key # 0
    /\ call[c].step = "cleanup" => call[c].own /\ call[c].error
Sought(c) ==
    call[c].step \in {"list", "key", "compute"} => \A i \in Rent!Live : servers[i].name # call[c].name
Verdict(c) ==
    /\ (call[c].step = "audit" /\ ~call[c].error) \/ call[c].answer = "created" =>
          /\ call[c].id \in Rent!Ids /\ servers[call[c].id].name = call[c].name
          /\ kind = "ovh" => call[c].id \in Rent!Live
    /\ call[c].answer = "destroyed" => call[c].id \in Rent!Ids \ Rent!Live
    /\ call[c].answer \in {"created", "destroyed"} => call[c].step = "answered"
RentInv ==
    /\ RentTypes /\ Apart /\ Rent!OneServerPerName
    /\ \A c \in Callers : OwnKey(c) /\ Sought(c) /\ Verdict(c)

\* A call that does nothing.
LEMMA IdleRental ==
    /\ Rent!Idle \in Rental /\ Rent!Idle.step = "idle" /\ ~Rent!Idle.own
    /\ Rent!Idle.answer \notin {"created", "destroyed"}
    /\ Rent!Idle.error = FALSE
<1>1. 0 \in Nat
  OBVIOUS
<1>2. Rent!Idle \in Rental
  BY <1>1, Zenon DEF Rent!Idle, Rental, Verdicts
<1> QED
  BY <1>2, Zenon DEF Rent!Idle

\* What a step of one caller leaves of the calls of the others.
Untouched(c) ==
    /\ \A d \in Callers \ {c} : call'[d] = call[d]
    /\ kind' = kind
    /\ \A i \in Rent!Ids : /\ i \in Rent!Ids' /\ servers'[i].name = servers[i].name
                           /\ i \notin Rent!Live => i \notin Rent!Live'
                           /\ i \in Rent!Live \ Rent!Live' =>
                                 \A d \in Callers \ {c} : call[d].step # "idle" => call[d].name # servers[i].name
    /\ \A i \in Rent!Live' \ Rent!Live : servers'[i].name = call[c].name /\ call[c].step # "idle"

LEMMA OthersKept ==
    ASSUME RentInv, NEW c \in Callers, Untouched(c), NEW d \in Callers \ {c}
    PROVE  (OwnKey(d) /\ Sought(d) /\ Verdict(d))'
<1>1. call'[d] = call[d] /\ d \in Callers /\ kind' = kind
  BY DEF Untouched
<1>2. OwnKey(d)'
  BY <1>1 DEF RentInv, OwnKey
<1>3. Sought(d)'
  <2> SUFFICES ASSUME call[d].step \in {"list", "key", "compute"}, NEW i \in Rent!Live'
               PROVE  servers'[i].name # call[d].name
    BY <1>1 DEF Sought
  <2>1. \A j \in Rent!Live : servers[j].name # call[d].name
    BY DEF RentInv, Sought
  <2>2. CASE i \in Rent!Live
    BY <2>1, <2>2 DEF Untouched, Rent!Live
  <2>3. CASE i \notin Rent!Live
    BY <2>3 DEF Untouched, RentInv, Apart
  <2> QED
    BY <2>2, <2>3
<1>4. Verdict(d)'
  <2> PICK x : x = call[d]
    OBVIOUS
  <2>1. Verdict(d) /\ call'[d] = x
    BY <1>1 DEF RentInv
  <2>2. ASSUME (x.step = "audit" /\ ~x.error) \/ x.answer = "created"
        PROVE  x.id \in Rent!Ids' /\ servers'[x.id].name = x.name /\ (kind = "ovh" => x.id \in Rent!Live')
    <3>1. x.id \in Rent!Ids /\ servers[x.id].name = x.name /\ (kind = "ovh" => x.id \in Rent!Live)
      BY <2>1, <2>2 DEF Verdict
    <3>2. x.step # "idle"
      BY <2>1, <2>2 DEF Verdict
    <3> QED
      BY <3>1, <3>2 DEF Untouched
  <2>3. ASSUME x.answer = "destroyed" PROVE x.id \in Rent!Ids' \ Rent!Live'
    BY <2>1, <2>3 DEF Verdict, Untouched
  <2>4. x.answer \in {"created", "destroyed"} => x.step = "answered"
    BY <2>1 DEF Verdict
  <2> QED
    BY <1>1, <2>1, <2>2, <2>3, <2>4 DEF Verdict
<1> QED
  BY <1>2, <1>3, <1>4

\* A step of a caller that keeps its name keeps the names apart.
LEMMA ApartKept ==
    ASSUME RentInv, NEW c \in Callers, \A d \in Callers \ {c} : call'[d] = call[d],
           call'[c].step # "idle" =>
              \A d \in Callers \ {c} : call[d].step # "idle" => call[d].name # call'[c].name
    PROVE  Apart'
BY DEF RentInv, Apart

LEMMA SameServers ==
    ASSUME NEW c \in Callers, UNCHANGED <<servers, kind>>, \A d \in Callers \ {c} : call'[d] = call[d]
    PROVE  Untouched(c) /\ Rent!Live' = Rent!Live /\ Rent!Ids' = Rent!Ids
<1>1. Rent!Ids' = Rent!Ids /\ Rent!Live' = Rent!Live
  BY DEF Rent!Ids, Rent!Live
<1> QED
  BY <1>1 DEF Untouched

LEMMA CallerStep ==
    ASSUME RentInv, NEW c \in Callers, RentTypes', Untouched(c), Rent!OneServerPerName',
           call'[c].step # "idle" =>
              \A d \in Callers \ {c} : call[d].step # "idle" => call[d].name # call'[c].name,
           (OwnKey(c) /\ Sought(c) /\ Verdict(c))'
    PROVE  RentInv'
<1>1. \A d \in Callers : (OwnKey(d) /\ Sought(d) /\ Verdict(d))'
  BY OthersKept
<1>2. Apart'
  BY ApartKept DEF Untouched
<1> QED
  BY <1>1, <1>2 DEF RentInv

\* A step on the way of a create: the call becomes r, the servers stay.
LEMMA OnTheWay ==
    ASSUME RentInv, NEW c \in Callers, NEW r \in Rental, call' = [call EXCEPT ![c] = r],
           UNCHANGED <<servers, kind>>, made' \in Nat, keys' \subseteq 0 .. made',
           r.step # "idle" => r.name = call[c].name /\ call[c].step # "idle",
           r.step \in {"find", "list", "key"} => ~r.own,
           r.own => r.key # 0,
           r.step = "cleanup" => r.own /\ r.error,
           r.step \in {"list", "key", "compute"} => \A i \in Rent!Live : servers[i].name # r.name,
           (r.step = "audit" /\ ~r.error) \/ r.answer = "created" =>
              /\ r.id \in Rent!Ids /\ servers[r.id].name = r.name
              /\ kind = "ovh" => r.id \in Rent!Live,
           r.answer = "destroyed" => r.id \in Rent!Ids \ Rent!Live,
           r.answer \in {"created", "destroyed"} => r.step = "answered"
    PROVE  RentInv'
<1>0. RentTypes
  BY DEF RentInv
<1>1. call' \in [Callers -> Rental] /\ call'[c] = r /\ \A d \in Callers \ {c} : call'[d] = call[d]
  BY <1>0 DEF RentTypes
<1>2. RentTypes'
  BY <1>0, <1>1 DEF RentTypes
<1>3. Untouched(c) /\ Rent!Live' = Rent!Live /\ Rent!Ids' = Rent!Ids
  BY <1>1, SameServers
<1>4. Rent!OneServerPerName'
  BY <1>3 DEF RentInv, Rent!OneServerPerName
<1>5. r.step # "idle" => \A d \in Callers \ {c} : call[d].step # "idle" => call[d].name # r.name
  BY DEF RentInv, Apart
<1>6. OwnKey(c)'
  BY <1>1 DEF OwnKey, RentInv
<1>7. Sought(c)'
  BY <1>1, <1>3 DEF Sought
<1>8. Verdict(c)'
  BY <1>1, <1>3 DEF Verdict
<1> QED
  BY <1>1, <1>2, <1>3, <1>4, <1>5, <1>6, <1>7, <1>8, CallerStep

LEMMA ServersFound ==
    ASSUME RentInv, NEW n
    PROVE  /\ Rent!Existing(n) = {} => \A i \in Rent!Live : servers[i].name # n
           /\ Rent!Existing(n) # {} => /\ Rent!First(Rent!Existing(n)) \in Rent!Existing(n)
                                       /\ Rent!Existing(n) \subseteq Nat
<1>1. Rent!Existing(n) \subseteq Nat
  BY DEF RentInv, RentTypes, Rent!Existing, Rent!Ids
<1>2. Rent!Existing(n) = {} => \A i \in Rent!Live : servers[i].name # n
  BY DEF Rent!Existing, Rent!Live
<1>3. ASSUME Rent!Existing(n) # {} PROVE Rent!First(Rent!Existing(n)) \in Rent!Existing(n)
  <2>1. \E x \in Rent!Existing(n) : \A y \in Rent!Existing(n) : x <= y
    BY <1>1, <1>3, LeastExists
  <2> QED
    BY <2>1, Zenon DEF Rent!First
<1> QED
  BY <1>1, <1>2, <1>3

LEMMA RentSearch ==
    ASSUME RentInv, NEW c \in Callers, Rent!Find(c) \/ Rent!ListKeys(c) PROVE RentInv'
<1> PICK x : x = call[c]
  OBVIOUS
<1>0. RentTypes /\ OwnKey(c) /\ Sought(c) /\ Verdict(c)
  BY DEF RentInv
<1>1. x \in Rental /\ call[c] = x
  BY <1>0 DEF RentTypes
<1>2. UNCHANGED <<kind, servers, keys, made>> /\ x.step \in {"find", "list"}
  BY DEF Rent!Find, Rent!ListKeys
<1>2a. made' \in Nat /\ keys' \subseteq 0 .. made'
  BY <1>0, <1>2 DEF RentTypes
<1>2b. ~x.own /\ x.answer \notin {"created", "destroyed"}
  BY <1>0, <1>1, <1>2 DEF OwnKey, Verdict
<1>3. ASSUME call' = [call EXCEPT ![c].step = "audit", ![c].error = TRUE] PROVE RentInv'
  <2> PICK r : r = [x EXCEPT !.step = "audit", !.error = TRUE]
    OBVIOUS
  <2>1. /\ r \in Rental /\ r.step = "audit" /\ r.error /\ r.name = x.name /\ r.own = x.own /\ r.key = x.key
        /\ r.answer = x.answer
    BY <1>1 DEF Rental
  <2>2. call' = [call EXCEPT ![c] = r]
    BY <1>1, <1>3
  <2>3. call[c].step # "idle"
    BY <1>1, <1>2
  <2> QED
    BY <1>1, <1>2, <1>2a, <1>2b, <2>1, <2>2, <2>3, OnTheWay
<1>4. ASSUME NEW s \in {"list", "key", "compute"}, NEW k \in Nat \cup {Nothing},
             call' = [call EXCEPT ![c].step = s, ![c].key = k],
             \A i \in Rent!Live : servers[i].name # x.name
      PROVE  RentInv'
  <2> PICK r : r = [x EXCEPT !.step = s, !.key = k]
    OBVIOUS
  <2>1. /\ r \in Rental /\ r.step = s /\ r.name = x.name /\ r.own = x.own /\ r.key = k
        /\ r.answer = x.answer
    BY <1>1, <1>4 DEF Rental
  <2>2. call' = [call EXCEPT ![c] = r]
    BY <1>1, <1>4
  <2>3. call[c].step # "idle"
    BY <1>1, <1>2
  <2>4. r.step \notin {"idle", "audit", "cleanup", "answered"} /\ ~r.own
        /\ r.answer \notin {"created", "destroyed"}
    BY <1>2b, <1>4, <2>1
  <2>5. \A i \in Rent!Live : servers[i].name # r.name
    BY <1>4, <2>1
  <2>6. r \in Rental /\ UNCHANGED <<servers, kind>> /\ r.name = call[c].name
    BY <1>1, <1>2, <2>1
  <2> QED
    BY <1>2a, <2>2, <2>3, <2>4, <2>5, <2>6, OnTheWay
<1>5. ASSUME NEW s \in {"list", "key"}, call' = [call EXCEPT ![c].step = s],
             \A i \in Rent!Live : servers[i].name # x.name
      PROVE  RentInv'
  <2>1. x.key \in Nat \cup {Nothing} /\ call' = [call EXCEPT ![c].step = s, ![c].key = x.key]
    BY <1>0, <1>1, <1>5 DEF RentTypes, Rental
  <2> QED
    BY <1>4, <1>5, <2>1
<1>6. CASE Rent!Find(c)
  <2>1. CASE call' = [call EXCEPT ![c].step = "audit", ![c].error = TRUE]
    BY <1>3, <2>1
  <2>2. CASE /\ Rent!Existing(x.name) # {}
             /\ call' = [call EXCEPT ![c].step = "audit", ![c].id = Rent!First(Rent!Existing(x.name))]
    <3> PICK i : i = Rent!First(Rent!Existing(x.name))
      OBVIOUS
    <3>1. i \in Rent!Existing(x.name) /\ i \in Nat
      BY <2>2, ServersFound
    <3>2. i \in Rent!Ids /\ servers[i].name = x.name /\ (kind = "ovh" => i \in Rent!Live)
      BY <3>1 DEF Rent!Existing, Rent!Live
    <3> PICK r : r = [x EXCEPT !.step = "audit", !.id = i]
      OBVIOUS
    <3>3. /\ r \in Rental /\ r.step = "audit" /\ r.name = x.name /\ r.own = x.own /\ r.key = x.key
          /\ r.answer = x.answer /\ r.id = i
      BY <1>1, <3>1 DEF Rental
    <3>4. call' = [call EXCEPT ![c] = r]
      BY <1>1, <2>2
    <3>5. call[c].step # "idle"
      BY <1>1, <1>2
    <3> QED
      BY <1>1, <1>2, <1>2a, <1>2b, <3>2, <3>3, <3>4, <3>5, OnTheWay
  <2>3. CASE /\ Rent!Existing(x.name) = {}
             /\ call' = [call EXCEPT ![c].step = IF kind = "ovh" THEN "list" ELSE "key"]
    <3> PICK s : s = IF kind = "ovh" THEN "list" ELSE "key"
      OBVIOUS
    <3>1. s \in {"list", "key"} /\ call' = [call EXCEPT ![c].step = s]
      BY <2>3
    <3> QED
      BY <1>5, <2>3, <3>1, ServersFound
  <2> QED
    BY <1>1, <1>6, <2>1, <2>2, <2>3 DEF Rent!Find, Rent!Failed, Rent!Goto
<1>7. CASE Rent!ListKeys(c)
  <2>0. \A i \in Rent!Live : servers[i].name # x.name
    BY <1>0, <1>1, <1>7 DEF Sought, Rent!ListKeys
  <2>1. CASE call' = [call EXCEPT ![c].step = "audit", ![c].error = TRUE]
    BY <1>3, <2>1
  <2>2. CASE /\ keys # {}
             /\ call' = [call EXCEPT ![c].step = "compute", ![c].key = Rent!First(keys)]
    <3> PICK k : k = Rent!First(keys)
      OBVIOUS
    <3>1. keys \subseteq Nat
      BY <1>0 DEF RentTypes
    <3>2. \E m \in keys : \A n \in keys : m <= n
      BY <2>2, <3>1, LeastExists
    <3>3. k \in Nat
      BY <3>1, <3>2, Zenon DEF Rent!First
    <3> QED
      BY <1>4, <2>0, <2>2, <3>3
  <2>3. CASE call' = [call EXCEPT ![c].step = "key"]
    BY <1>5, <2>0, <2>3
  <2> QED
    BY <1>7, <2>1, <2>2, <2>3 DEF Rent!ListKeys, Rent!Failed, Rent!Goto
<1> QED
  BY <1>6, <1>7

LEMMA RentKeys ==
    ASSUME RentInv, NEW c \in Callers, Rent!MakeKey(c) \/ Rent!Cleanup(c) PROVE RentInv'
<1> PICK x : x = call[c]
  OBVIOUS
<1>0. RentTypes /\ OwnKey(c) /\ Sought(c) /\ Verdict(c)
  BY DEF RentInv
<1>1. x \in Rental /\ call[c] = x
  BY <1>0 DEF RentTypes
<1>2. UNCHANGED <<kind, servers>> /\ x.step \in {"key", "cleanup"}
  BY DEF Rent!MakeKey, Rent!Cleanup
<1>3. made' \in Nat /\ keys' \subseteq 0 .. made'
  <2>1. CASE Rent!MakeKey(c)
    BY <1>0, <2>1 DEF RentTypes, Rent!MakeKey, Rent!Effect
  <2>2. CASE Rent!Cleanup(c)
    BY <1>0, <2>2 DEF RentTypes, Rent!Cleanup, Rent!Effect
  <2> QED
    BY <2>1, <2>2
<1>4. x.answer \notin {"created", "destroyed"} /\ call[c].step # "idle"
  BY <1>0, <1>1, <1>2 DEF Verdict
<1>5. ASSUME NEW r \in Rental, call' = [call EXCEPT ![c] = r], r.step = "audit", r.error,
             r.name = x.name, r.own = x.own, r.key = x.key, r.answer = x.answer
      PROVE  RentInv'
  <2>1. /\ r.step \notin {"idle", "list", "find", "key", "compute", "cleanup", "answered"}
        /\ r.name = call[c].name
        /\ r.own => r.key # 0
        /\ r.answer \notin {"created", "destroyed"}
    BY <1>0, <1>1, <1>4, <1>5 DEF OwnKey
  <2> QED
    BY <1>2, <1>3, <1>4, <1>5, <2>1, OnTheWay
<1>6. CASE Rent!MakeKey(c)
  <2>1. CASE call' = [call EXCEPT ![c].step = "audit", ![c].error = TRUE]
    <3> PICK r : r = [x EXCEPT !.step = "audit", !.error = TRUE]
      OBVIOUS
    <3>1. /\ r \in Rental /\ r.step = "audit" /\ r.error /\ r.name = x.name /\ r.own = x.own /\ r.key = x.key
          /\ r.answer = x.answer
      BY <1>1 DEF Rental
    <3>2. call' = [call EXCEPT ![c] = r]
      BY <1>1, <2>1
    <3> QED
      BY <1>5, <3>1, <3>2
  <2>2. CASE call' = [call EXCEPT ![c].step = "compute", ![c].key = made + 1, ![c].own = TRUE]
    <3> PICK k : k = made + 1
      OBVIOUS
    <3>0. k \in Nat \cup {Nothing} /\ k # 0
      BY <1>0 DEF RentTypes
    <3> PICK r : r = [x EXCEPT !.step = "compute", !.key = k, !.own = TRUE]
      OBVIOUS
    <3>1. /\ r \in Rental /\ r.step = "compute" /\ r.name = x.name /\ r.own /\ r.key = k
          /\ r.answer = x.answer
      BY <1>1, <3>0 DEF Rental
    <3>2. call' = [call EXCEPT ![c] = r]
      BY <1>1, <2>2
    <3>3. /\ r.step \notin {"idle", "find", "list", "key", "cleanup", "audit", "answered"}
          /\ r.name = call[c].name /\ r.key # 0
          /\ r.answer \notin {"created", "destroyed"}
      BY <1>1, <1>4, <3>0, <3>1
    <3>4. \A i \in Rent!Live : servers[i].name # r.name
      BY <1>0, <1>1, <1>6, <3>1 DEF Sought, Rent!MakeKey
    <3> QED
      BY <1>2, <1>3, <1>4, <3>1, <3>2, <3>3, <3>4, OnTheWay
  <2> QED
    BY <1>6, <2>1, <2>2 DEF Rent!MakeKey, Rent!Failed
<1>7. CASE Rent!Cleanup(c)
  <2> PICK r : r = [x EXCEPT !.step = "audit"]
    OBVIOUS
  <2>1. /\ r \in Rental /\ r.step = "audit" /\ r.error = x.error /\ r.name = x.name /\ r.own = x.own
        /\ r.key = x.key /\ r.answer = x.answer
    BY <1>1 DEF Rental
  <2>2. call' = [call EXCEPT ![c] = r]
    BY <1>1, <1>7 DEF Rent!Cleanup, Rent!Goto
  <2>3. x.error
    BY <1>0, <1>1, <1>7 DEF OwnKey, Rent!Cleanup
  <2> QED
    BY <1>5, <2>1, <2>2, <2>3
<1> QED
  BY <1>6, <1>7

LEMMA RentAnswers ==
    ASSUME RentInv, NEW c \in Callers, Rent!Answer(c) \/ Rent!Read(c) PROVE RentInv'
<1> PICK x : x = call[c]
  OBVIOUS
<1>0. RentTypes /\ OwnKey(c) /\ Verdict(c)
  BY DEF RentInv
<1>1. x \in Rental /\ call[c] = x
  BY <1>0 DEF RentTypes
<1>2. UNCHANGED <<kind, servers, keys, made>> /\ x.step \in {"audit", "answered"}
  BY DEF Rent!Answer, Rent!Read
<1>3. made' \in Nat /\ keys' \subseteq 0 .. made' /\ call[c].step # "idle"
  BY <1>0, <1>1, <1>2 DEF RentTypes
<1>4. CASE Rent!Answer(c)
  <2>1. PICK a \in {"created", "failed"} :
           /\ a = "created" => ~x.error
           /\ call' = [call EXCEPT ![c].step = "answered", ![c].answer = a]
    <3>1. CASE call' = [call EXCEPT ![c].step = "answered",
                                    ![c].answer = IF call[c].error THEN "failed" ELSE "created"]
      <4>1. CASE call[c].error
        BY <1>1, <3>1, <4>1
      <4>2. CASE ~call[c].error
        BY <1>1, <3>1, <4>2
      <4> QED
        BY <4>1, <4>2
    <3>2. CASE call' = [call EXCEPT ![c].step = "answered", ![c].answer = "failed"]
      BY <3>2
    <3> QED
      BY <1>4, <3>1, <3>2 DEF Rent!Answer
  <2> PICK r : r = [x EXCEPT !.step = "answered", !.answer = a]
    OBVIOUS
  <2>2. a \in Verdicts
    BY Zenon DEF Verdicts
  <2>3. /\ r \in Rental /\ r.step = "answered" /\ r.name = x.name /\ r.own = x.own
        /\ r.key = x.key /\ r.answer = a /\ r.id = x.id
    BY <1>1, <2>2 DEF Rental
  <2>4. call' = [call EXCEPT ![c] = r]
    BY <1>1, <2>1
  <2>5. /\ r.step \notin {"idle", "list", "find", "key", "compute", "cleanup", "audit"}
        /\ r.name = call[c].name
        /\ r.own => r.key # 0
        /\ r.answer # "destroyed"
    BY <1>0, <1>1, <2>3 DEF OwnKey
  <2>6. r.answer = "created" =>
           /\ r.id \in Rent!Ids /\ servers[r.id].name = r.name
           /\ kind = "ovh" => r.id \in Rent!Live
    BY <1>0, <1>1, <1>4, <2>1, <2>3 DEF Verdict, Rent!Answer
  <2> QED
    BY <1>2, <1>3, <2>3, <2>4, <2>5, <2>6, OnTheWay
<1>5. CASE Rent!Read(c)
  <2> PICK r : r = Rent!Idle
    OBVIOUS
  <2>1. /\ r \in Rental /\ r.step = "idle" /\ ~r.own /\ r.answer \notin {"created", "destroyed"}
    BY IdleRental
  <2>2. call' = [call EXCEPT ![c] = r]
    BY <1>5 DEF Rent!Read
  <2>3. r.step \notin {"list", "find", "key", "compute", "cleanup", "audit", "answered"}
    BY <2>1
  <2> QED
    BY <1>2, <1>3, <2>1, <2>2, <2>3, OnTheWay
<1> QED
  BY <1>4, <1>5

LEMMA RentCreate ==
    ASSUME RentInv, NEW c \in Callers, NEW n \in Names, Rent!Create(c, n) PROVE RentInv'
<1>0. RentTypes
  BY DEF RentInv
<1> PICK r : r = [Rent!Idle EXCEPT !.step = "find", !.name = n]
  OBVIOUS
<1>1. /\ r \in Rental /\ r.step = "find" /\ r.name = n /\ ~r.own
      /\ r.answer \notin {"created", "destroyed"}
  <2> PICK z : z = Rent!Idle
    OBVIOUS
  <2>1. z \in Rental /\ ~z.own /\ z.answer \notin {"created", "destroyed"}
    BY IdleRental
  <2>2. r = [z EXCEPT !.step = "find", !.name = n]
    OBVIOUS
  <2> HIDE DEF Rent!Idle
  <2> QED
    BY <2>1, <2>2 DEF Rental
<1>2. call' = [call EXCEPT ![c] = r] /\ UNCHANGED <<kind, servers, keys, made>> /\ Rent!Free(c, n)
  BY DEF Rent!Create
<1>3. call' \in [Callers -> Rental] /\ call'[c] = r /\ \A d \in Callers \ {c} : call'[d] = call[d]
  BY <1>0, <1>1, <1>2 DEF RentTypes
<1>4. RentTypes'
  BY <1>0, <1>2, <1>3 DEF RentTypes
<1>5. Untouched(c) /\ Rent!Live' = Rent!Live
  BY <1>2, <1>3, SameServers
<1>6. Rent!OneServerPerName'
  BY <1>2, <1>5 DEF RentInv, Rent!OneServerPerName
<1>7. \A d \in Callers \ {c} : call[d].step # "idle" => call[d].name # call'[c].name
  BY <1>1, <1>2, <1>3 DEF Rent!Free
<1>8. OwnKey(c)' /\ Sought(c)' /\ Verdict(c)'
  BY <1>1, <1>3 DEF OwnKey, Sought, Verdict
<1> QED
  BY <1>4, <1>5, <1>6, <1>7, <1>8, CallerStep

\* createComputeInstance: the server that was made, whatever was heard of it, is the only one
\* of its name.
LEMMA RentCompute == ASSUME RentInv, NEW c \in Callers, Rent!Compute(c) PROVE RentInv'
<1> PICK x : x = call[c]
  OBVIOUS
<1>0. RentTypes /\ OwnKey(c) /\ Sought(c) /\ Verdict(c)
  BY DEF RentInv
<1>1. x \in Rental /\ call[c] = x /\ x.step = "compute" /\ x.name \in Names
  BY <1>0 DEF RentTypes, OwnKey, Rent!Compute
<1>2. UNCHANGED <<kind, keys, made>> /\ made' \in Nat /\ keys' \subseteq 0 .. made'
  BY <1>0 DEF Rent!Compute, RentTypes
<1>3. x.answer \notin {"created", "destroyed"} /\ \A i \in Rent!Live : servers[i].name # x.name
  BY <1>0, <1>1 DEF Verdict, Sought
<1>4. PICK reply \in {"ok", "refused", "lost"} :
         /\ call[c].key \notin keys => reply = "refused"
         /\ servers' = IF Rent!Effect(reply)
                       THEN Append(servers, [name |-> call[c].name, key |-> call[c].key, state |-> "active"])
                       ELSE servers
         /\ IF reply = "ok"
            THEN call' = [call EXCEPT ![c].step = "audit", ![c].id = Len(servers) + 1]
            ELSE Rent!Failed(c, IF call[c].own THEN "cleanup" ELSE "audit")
  BY DEF Rent!Compute
<1>5. PICK r \in Rental :
         /\ call' = [call EXCEPT ![c] = r] /\ r.step \in {"cleanup", "audit"}
         /\ r.name = x.name /\ r.own = x.own /\ r.key = x.key /\ r.answer = x.answer
         /\ reply = "ok" => r.step = "audit" /\ r.id = Len(servers) + 1
         /\ reply # "ok" => r.error /\ (r.step = "cleanup" => r.own)
  <2>1. CASE reply = "ok"
    <3> PICK n : n = Len(servers) + 1
      OBVIOUS
    <3>1. n \in Nat
      BY <1>0 DEF RentTypes
    <3> PICK r : r = [x EXCEPT !.step = "audit", !.id = n]
      OBVIOUS
    <3>2. /\ r \in Rental /\ r.step = "audit" /\ r.id = n
          /\ r.name = x.name /\ r.own = x.own /\ r.key = x.key /\ r.answer = x.answer
      BY <1>1, <3>1 DEF Rental
    <3>3. call' = [call EXCEPT ![c] = r]
      BY <1>1, <1>4, <2>1
    <3> QED
      BY <2>1, <3>2, <3>3
  <2>2. CASE reply # "ok"
    <3> PICK s : s = IF x.own THEN "cleanup" ELSE "audit"
      OBVIOUS
    <3>1. s \in {"cleanup", "audit"} /\ (s = "cleanup" => x.own)
      OBVIOUS
    <3>2. call' = [call EXCEPT ![c].step = s, ![c].error = TRUE]
      BY <1>1, <1>4, <2>2 DEF Rent!Failed
    <3> PICK r : r = [x EXCEPT !.step = s, !.error = TRUE]
      OBVIOUS
    <3>3. /\ r \in Rental /\ r.step = s /\ r.error
          /\ r.name = x.name /\ r.own = x.own /\ r.key = x.key /\ r.answer = x.answer
      BY <1>1, <3>1 DEF Rental
    <3>4. call' = [call EXCEPT ![c] = r]
      BY <1>1, <3>2
    <3> QED
      BY <2>2, <3>1, <3>3, <3>4
  <2> QED
    BY <2>1, <2>2
<1>8. call' \in [Callers -> Rental] /\ call'[c] = r /\ \A d \in Callers \ {c} : call'[d] = call[d]
  BY <1>0, <1>5 DEF RentTypes
<1>9. CASE servers' = servers /\ reply # "ok"
  <2>1. /\ r.step \notin {"idle", "list", "find", "key", "compute", "answered"}
        /\ r.name = call[c].name /\ call[c].step # "idle"
        /\ r.own => r.key # 0
        /\ r.answer \notin {"created", "destroyed"} /\ r.error
    BY <1>0, <1>1, <1>3, <1>5, <1>9 DEF OwnKey
  <2>2. r \in Rental /\ (r.step = "cleanup" => r.own) /\ call' = [call EXCEPT ![c] = r]
    BY <1>5, <1>9
  <2>3. UNCHANGED <<servers, kind>> /\ made' \in Nat /\ keys' \subseteq 0 .. made'
    BY <1>2, <1>9
  <2> QED
    BY <2>1, <2>2, <2>3, OnTheWay
<1>10. CASE reply \in {"ok", "lost"}
  <2> PICK m : m = [name |-> x.name, key |-> x.key, state |-> "active"]
    OBVIOUS
  <2>1. servers' = Append(servers, m)
    BY <1>1, <1>4, <1>10 DEF Rent!Effect
  <2>2. m \in Server /\ m.name = x.name /\ Rent!Status(m.state) # "destroyed"
    <3>1. x.key \in Nat
      BY <1>0, <1>1, <1>4, <1>10 DEF RentTypes
    <3>2. m \in Server /\ m.name = x.name
      BY <1>1, <3>1 DEF Server
    <3>3. Rent!Status(m.state) # "destroyed"
      BY DEF Rent!Status
    <3> QED
      BY <3>2, <3>3
  <2> PICK k : k = Len(servers) + 1
    OBVIOUS
  <2>3. /\ servers' \in Seq(Server) /\ k \in Nat /\ Rent!Ids' = Rent!Ids \cup {k} /\ k \notin Rent!Ids
        /\ servers'[k] = m /\ \A i \in Rent!Ids : servers'[i] = servers[i]
    BY <1>0, <2>1, <2>2 DEF RentTypes, Rent!Ids
  <2>4. Rent!Live' = Rent!Live \cup {k}
    BY <2>2, <2>3 DEF Rent!Live, Rent!Status
  <2>5. RentTypes'
    BY <1>0, <1>2, <1>8, <2>3 DEF RentTypes
  <2>6. Untouched(c)
    BY <1>1, <1>2, <1>8, <2>2, <2>3, <2>4 DEF Untouched, Rent!Live
  <2>7. Rent!OneServerPerName'
    BY <1>3, <2>2, <2>3, <2>4 DEF RentInv, Rent!OneServerPerName, Rent!Live
  <2>8. \A d \in Callers \ {c} : call[d].step # "idle" => call[d].name # call'[c].name
    BY <1>1, <1>5, <1>8 DEF RentInv, Apart
  <2>9. OwnKey(c)' /\ Sought(c)'
    BY <1>0, <1>1, <1>5, <1>8 DEF OwnKey, Sought
  <2>10. Verdict(c)'
    BY <1>3, <1>5, <1>8, <1>10, <2>2, <2>3, <2>4 DEF Verdict
  <2> QED
    BY <2>5, <2>6, <2>7, <2>8, <2>9, <2>10, CallerStep
<1> QED
  BY <1>4, <1>9, <1>10 DEF Rent!Effect

LEMMA RentDestroy == ASSUME RentInv, NEW c \in Callers, Rent!Destroy(c) PROVE RentInv'
<1>0. RentTypes
  BY DEF RentInv
<1>1. PICK i \in Rent!Ids, reply \in {"ok", "refused", "lost"} :
         /\ Rent!Free(c, servers[i].name)
         /\ servers' = IF Rent!Effect(reply)
                       THEN [servers EXCEPT ![i].state = IF kind = "ovh" THEN "deleted" ELSE "cancelled"]
                       ELSE servers
         /\ call' = [call EXCEPT ![c] = [Rent!Idle EXCEPT !.step = "answered", !.id = i,
                        !.name = servers[i].name,
                        !.answer = IF reply = "ok" THEN "destroyed" ELSE "failed"]]
  BY Zenon DEF Rent!Destroy
<1>2. UNCHANGED <<kind, keys, made>> /\ i \in Nat /\ servers[i] \in Server /\ servers[i].name \in Names
  <2>1. UNCHANGED <<kind, keys, made>>
    BY DEF Rent!Destroy
  <2>2. i \in Nat /\ servers[i] \in Server
    BY <1>0, <1>1 DEF RentTypes, Rent!Ids
  <2> QED
    BY <2>1, <2>2 DEF Server
<1> PICK a : a = IF reply = "ok" THEN "destroyed" ELSE "failed"
  OBVIOUS
<1>3. a \in Verdicts /\ a # "created" /\ (a = "destroyed" => reply = "ok")
  <2>1. a \in {"destroyed", "failed"} /\ (a = "destroyed" => reply = "ok")
    OBVIOUS
  <2> QED
    BY <2>1, Zenon DEF Verdicts
<1> PICK r : r = [Rent!Idle EXCEPT !.step = "answered", !.id = i, !.name = servers[i].name, !.answer = a]
  OBVIOUS
<1>4. /\ r \in Rental /\ r.step = "answered" /\ r.name = servers[i].name /\ ~r.own
      /\ r.id = i /\ r.answer = a
  <2> PICK z : z = Rent!Idle
    OBVIOUS
  <2>1. z \in Rental /\ ~z.own
    BY IdleRental
  <2>2. r = [z EXCEPT !.step = "answered", !.id = i, !.name = servers[i].name, !.answer = a]
    OBVIOUS
  <2> HIDE DEF Rent!Idle
  <2> QED
    BY <1>2, <1>3, <2>1, <2>2 DEF Rental
<1>5. call' = [call EXCEPT ![c] = r]
  BY <1>1
<1>6. call' \in [Callers -> Rental] /\ call'[c] = r /\ \A d \in Callers \ {c} : call'[d] = call[d]
  BY <1>0, <1>4, <1>5 DEF RentTypes
<1>7. \A d \in Callers \ {c} : call[d].step # "idle" => call[d].name # servers[i].name
  BY <1>1 DEF Rent!Free
<1>8. OwnKey(c)' /\ Sought(c)'
  BY <1>2, <1>4, <1>6 DEF OwnKey, Sought
<1>9. CASE servers' = servers /\ reply # "ok"
  <2>1. RentTypes'
    BY <1>0, <1>2, <1>6, <1>9 DEF RentTypes
  <2>2. Untouched(c) /\ Rent!Live' = Rent!Live
    BY <1>2, <1>6, <1>9, SameServers
  <2>3. Rent!OneServerPerName'
    BY <1>9, <2>2 DEF RentInv, Rent!OneServerPerName
  <2>4. Verdict(c)'
    BY <1>3, <1>4, <1>6, <1>9 DEF Verdict
  <2> QED
    BY <1>4, <1>6, <1>7, <1>8, <2>1, <2>2, <2>3, <2>4, CallerStep
<1>10. CASE Rent!Effect(reply)
  <2>1. PICK v \in {"deleted", "cancelled"} : servers' = [servers EXCEPT ![i].state = v]
    BY <1>1, <1>10
  <2> PICK m : m = [servers[i] EXCEPT !.state = v]
    OBVIOUS
  <2>1a. m \in Server /\ m.name = servers[i].name /\ m.state = v
    BY <1>2, <2>1 DEF Server
  <2>1b. servers' = [servers EXCEPT ![i] = m] /\ servers \in Seq(Server) /\ i \in 1 .. Len(servers)
    BY <1>0, <1>1, <2>1 DEF RentTypes, Rent!Ids
  <2>1c. /\ servers' \in Seq(Server) /\ Len(servers') = Len(servers) /\ servers'[i] = m
         /\ \A j \in 1 .. Len(servers) \ {i} : servers'[j] = servers[j]
    BY <2>1a, <2>1b
  <2>2. /\ servers' \in Seq(Server) /\ Rent!Ids' = Rent!Ids
        /\ \A j \in Rent!Ids : servers'[j].name = servers[j].name
        /\ \A j \in Rent!Ids \ {i} : servers'[j] = servers[j]
        /\ servers'[i].state = v
    BY <2>1a, <2>1c DEF Rent!Ids
  <2>3. Rent!Live' = Rent!Live \ {i}
    BY <1>1, <2>2 DEF Rent!Live, Rent!Status
  <2>4. RentTypes'
    BY <1>0, <1>2, <1>6, <2>2 DEF RentTypes
  <2>5. Untouched(c)
    BY <1>2, <1>6, <1>7, <2>2, <2>3 DEF Untouched
  <2>6. Rent!OneServerPerName'
    BY <2>2, <2>3 DEF RentInv, Rent!OneServerPerName, Rent!Live
  <2>7. Verdict(c)'
    BY <1>1, <1>3, <1>4, <1>6, <2>2, <2>3 DEF Verdict
  <2>8. \A d \in Callers \ {c} : call[d].step # "idle" => call[d].name # call'[c].name
    BY <1>4, <1>6, <1>7
  <2> QED
    BY <1>8, <2>4, <2>5, <2>6, <2>7, <2>8, CallerStep
<1> QED
  BY <1>1, <1>9, <1>10 DEF Rent!Effect

LEMMA RentInit == Rent!Init => RentInv
<1> SUFFICES ASSUME Rent!Init PROVE RentInv
  OBVIOUS
<1>1. servers = <<>> /\ keys \in {{}, {0}} /\ made = 0 /\ call = [c \in Callers |-> Rent!Idle]
  BY DEF Rent!Init
<1>2. RentTypes
  BY <1>1, IdleRental DEF RentTypes, Rent!Init
<1>3. Rent!Ids = {} /\ Rent!Live = {}
  BY <1>1 DEF Rent!Ids, Rent!Live
<1>4. \A c \in Callers : /\ call[c].step = "idle" /\ ~call[c].own
                         /\ call[c].answer \notin {"created", "destroyed"}
  BY <1>1, IdleRental
<1>5. \A c \in Callers : OwnKey(c) /\ Sought(c) /\ Verdict(c)
  BY <1>4 DEF OwnKey, Sought, Verdict
<1>6. Apart /\ Rent!OneServerPerName
  BY <1>3, <1>4 DEF Apart, Rent!OneServerPerName
<1> QED
  BY <1>2, <1>5, <1>6 DEF RentInv

LEMMA RentStep == RentInv /\ [Rent!Next]_(Rent!provisioningVars) => RentInv'
<1>1. ASSUME RentInv, UNCHANGED Rent!provisioningVars PROVE RentInv'
  <2>1. UNCHANGED <<kind, servers, keys, made, call>>
    BY <1>1 DEF Rent!provisioningVars
  <2>2. Rent!Ids' = Rent!Ids /\ Rent!Live' = Rent!Live
    BY <2>1 DEF Rent!Ids, Rent!Live
  <2> QED
    BY <1>1, <2>1, <2>2 DEF RentInv, RentTypes, Apart, OwnKey, Sought, Verdict, Rent!OneServerPerName
<1>2. ASSUME RentInv, NEW c \in Callers, Rent!Find(c) \/ Rent!ListKeys(c) PROVE RentInv'
  BY <1>2, RentSearch
<1>3. ASSUME RentInv, NEW c \in Callers, Rent!MakeKey(c) \/ Rent!Cleanup(c) PROVE RentInv'
  BY <1>3, RentKeys
<1>4. ASSUME RentInv, NEW c \in Callers, Rent!Answer(c) \/ Rent!Read(c) PROVE RentInv'
  BY <1>4, RentAnswers
<1> QED
  BY <1>1, <1>2, <1>3, <1>4, RentCreate, RentCompute, RentDestroy DEF Rent!Next

\* A key that a call has made and not yet used answers for itself: it is not left behind.
InHand(c, k) == call[c].step \in {"compute", "cleanup"} /\ call[c].own /\ call[c].key = k
\* Keys at the provider that no server uses and no call has in hand.
Spare == {k \in keys : /\ k # 0 /\ \A i \in Rent!Ids : servers[i].key # k
                       /\ \A c \in Callers : ~InHand(c, k)}
KeyInv == RentInv /\ leaks \in Nat /\ Cardinality(Spare) <= leaks

LEMMA SpareIsFinite == RentInv => IsFiniteSet(Spare) /\ Cardinality(Spare) \in Nat
<1> SUFFICES ASSUME RentInv PROVE IsFiniteSet(Spare) /\ Cardinality(Spare) \in Nat
  OBVIOUS
<1>1. IsFiniteSet(0 .. made)
  BY FS_Interval DEF RentInv, RentTypes
<1>2. Spare \in SUBSET (0 .. made)
  BY DEF Spare, RentInv, RentTypes
<1>3. IsFiniteSet(Spare)
  BY <1>1, <1>2, FS_Subset
<1> QED
  BY <1>3, FS_CardinalityType

\* A step leaves no further key behind, or one of which the answer or the removal failed.
LEMMA KeysCounted ==
    ASSUME KeyInv, RentInv', NEW k,
           (Spare' \subseteq Spare /\ leaks' = leaks) \/ (Spare' \subseteq Spare \cup {k} /\ leaks' = leaks + 1)
    PROVE  KeyInv'
<1>1. IsFiniteSet(Spare) /\ Cardinality(Spare) \in Nat /\ Cardinality(Spare) <= leaks /\ leaks \in Nat
  BY SpareIsFinite DEF KeyInv
<1>2. Cardinality(Spare') \in Nat /\ leaks' \in Nat
  <2>1. (RentInv => IsFiniteSet(Spare) /\ Cardinality(Spare) \in Nat)'
    BY SpareIsFinite, PTL
  <2> QED
    BY <1>1, <2>1
<1>3. CASE Spare' \subseteq Spare /\ leaks' = leaks
  <2>1. Cardinality(Spare') <= Cardinality(Spare)
    BY <1>1, <1>3, FS_Subset
  <2> QED
    BY <1>1, <1>2, <1>3, <2>1 DEF KeyInv
<1>4. CASE Spare' \subseteq Spare \cup {k} /\ leaks' = leaks + 1
  <2>0. /\ IsFiniteSet(Spare \cup {k})
        /\ Cardinality(Spare \cup {k}) = IF k \in Spare THEN Cardinality(Spare) ELSE Cardinality(Spare) + 1
    <3> HIDE DEF Spare
    <3> QED
      BY <1>1, FS_AddElement, Zenon
  <2>1. IsFiniteSet(Spare \cup {k}) /\ Cardinality(Spare \cup {k}) <= Cardinality(Spare) + 1
    BY <1>1, <2>0
  <2>2. Cardinality(Spare') <= Cardinality(Spare \cup {k}) /\ Cardinality(Spare \cup {k}) \in Nat
    BY <1>4, <2>1, FS_Subset, FS_CardinalityType
  <2> QED
    BY <1>1, <1>2, <1>4, <2>1, <2>2 DEF KeyInv
<1> QED
  BY <1>3, <1>4

\* What is spare after a step was so before it, unless the step made it so.
LEMMA SpareBefore ==
    ASSUME NEW c \in Callers, \A d \in Callers \ {c} : call'[d] = call[d],
           \A i \in Rent!Ids : i \in Rent!Ids' /\ servers'[i].key = servers[i].key,
           NEW k \in Spare', k \in keys, InHand(c, k) => InHand(c, k)'
    PROVE  k \in Spare
<1>1. k # 0 /\ \A i \in Rent!Ids : servers[i].key # k
  BY DEF Spare
<1>2. ASSUME NEW d \in Callers, InHand(d, k) PROVE FALSE
  <2>1. InHand(d, k)'
    BY <1>2 DEF InHand
  <2> QED
    BY <2>1 DEF Spare
<1> QED
  BY <1>1, <1>2 DEF Spare

LEMMA KeysMove ==
    ASSUME KeyInv, RentInv', NEW c \in Callers, Rent!MakeKey(c) \/ Rent!Cleanup(c) PROVE KeyInv'
<1>0. RentTypes /\ OwnKey(c)
  BY DEF KeyInv, RentInv
<1> PICK x \in Rental : x = call[c]
  BY <1>0 DEF RentTypes
<1>1. UNCHANGED servers /\ \A i \in Rent!Ids : i \in Rent!Ids' /\ servers'[i].key = servers[i].key
  BY DEF Rent!MakeKey, Rent!Cleanup, Rent!Ids
<1>2. CASE Rent!MakeKey(c)
  <2> PICK n : n = made + 1
    OBVIOUS
  <2>1. PICK reply \in {"ok", "refused", "lost"} :
          /\ keys' = IF Rent!Effect(reply) THEN keys \cup {n} ELSE keys
          /\ leaks' = IF reply = "lost" THEN leaks + 1 ELSE leaks
          /\ IF reply = "ok"
             THEN call' = [call EXCEPT ![c].step = "compute", ![c].key = n, ![c].own = TRUE]
             ELSE Rent!Failed(c, "audit")
    BY <1>2 DEF Rent!MakeKey
  <2>2. x.step = "key" /\ \A k : ~InHand(c, k)
    BY <1>2 DEF Rent!MakeKey, InHand
  <2>3. \A d \in Callers \ {c} : call'[d] = call[d]
    BY <1>0, <2>1 DEF Rent!Failed, RentTypes
  <2>4. \A k \in Spare' : k \in keys => k \in Spare
    BY <1>1, <2>2, <2>3, SpareBefore
  <2>5. reply = "ok" => n \notin Spare'
    <3> SUFFICES ASSUME reply = "ok" PROVE n \notin Spare'
      OBVIOUS
    <3>1. call' = [call EXCEPT ![c] = [x EXCEPT !.step = "compute", !.key = n, !.own = TRUE]]
      BY <2>1
    <3>2. call'[c] = [x EXCEPT !.step = "compute", !.key = n, !.own = TRUE]
      BY <1>0, <3>1 DEF RentTypes
    <3>3. InHand(c, n)'
      BY <3>2 DEF InHand, Rental
    <3> QED
      BY <3>3 DEF Spare
  <2>6. Spare' \subseteq Spare \/ (Spare' \subseteq Spare \cup {n} /\ reply = "lost")
    BY <2>1, <2>4, <2>5 DEF Rent!Effect, Spare
  <2>7. (Spare' \subseteq Spare /\ leaks' = leaks) \/ (Spare' \subseteq Spare \cup {n} /\ leaks' = leaks + 1)
    BY <2>1, <2>6
  <2> QED
    BY <2>7, KeysCounted
<1>3. CASE Rent!Cleanup(c)
  <2>1. PICK reply \in {"ok", "refused", "lost"} :
          /\ keys' = IF Rent!Effect(reply) THEN keys \ {x.key} ELSE keys
          /\ leaks' = IF reply = "refused" THEN leaks + 1 ELSE leaks
    BY <1>3 DEF Rent!Cleanup
  <2>2. \A k : InHand(c, k) => k = x.key
    BY DEF InHand
  <2>3. \A d \in Callers \ {c} : call'[d] = call[d]
    BY <1>0, <1>3 DEF Rent!Cleanup, Rent!Goto, RentTypes
  <2>4. Spare' \subseteq keys
    BY <2>1 DEF Spare
  <2>5. \A k \in Spare' : k # x.key => k \in Spare
    BY <1>1, <2>2, <2>3, <2>4, SpareBefore
  <2>6. Rent!Effect(reply) => x.key \notin Spare'
    BY <2>1 DEF Spare
  <2>7. (Spare' \subseteq Spare /\ leaks' = leaks) \/ (Spare' \subseteq Spare \cup {x.key} /\ leaks' = leaks + 1)
    BY <2>1, <2>5, <2>6 DEF Rent!Effect
  <2> QED
    BY <2>7, KeysCounted
<1> QED
  BY <1>2, <1>3

\* A key goes to the server that is made with it, or stays in hand to be cleaned up.
LEMMA KeysUsed == ASSUME KeyInv, RentInv', NEW c \in Callers, Rent!Compute(c) PROVE KeyInv'
<1>0. RentTypes
  BY DEF KeyInv, RentInv
<1> PICK x \in Rental : x = call[c]
  BY <1>0 DEF RentTypes
<1>1. PICK reply \in {"ok", "refused", "lost"} :
         /\ servers' = IF Rent!Effect(reply)
                       THEN Append(servers, [name |-> x.name, key |-> x.key, state |-> "active"])
                       ELSE servers
         /\ IF reply = "ok"
            THEN call' = [call EXCEPT ![c].step = "audit", ![c].id = Len(servers) + 1]
            ELSE call' = [call EXCEPT ![c].step = IF x.own THEN "cleanup" ELSE "audit", ![c].error = TRUE]
  BY DEF Rent!Compute, Rent!Failed
<1>2. UNCHANGED <<keys, leaks>> /\ \A d \in Callers \ {c} : call'[d] = call[d]
  BY <1>0, <1>1 DEF Rent!Compute, RentTypes
<1>3. \A i \in Rent!Ids : i \in Rent!Ids' /\ servers'[i].key = servers[i].key
  <2>1. CASE Rent!Effect(reply)
    <3> PICK m : m = [name |-> x.name, key |-> x.key, state |-> "active"]
      OBVIOUS
    <3>1. servers' = Append(servers, m) /\ servers \in Seq(Server)
      BY <1>0, <1>1, <2>1 DEF RentTypes
    <3> QED
      BY <3>1 DEF Rent!Ids
  <2>2. CASE ~Rent!Effect(reply)
    BY <1>1, <2>2 DEF Rent!Ids
  <2> QED
    BY <2>1, <2>2
<1>4. ASSUME NEW k \in Spare', InHand(c, k) PROVE InHand(c, k)'
  <2>1. x.own /\ x.key = k
    BY <1>4 DEF InHand
  <2>2. ~Rent!Effect(reply)
    <3> SUFFICES ASSUME Rent!Effect(reply) PROVE FALSE
      OBVIOUS
    <3> PICK m : m = [name |-> x.name, key |-> x.key, state |-> "active"]
      OBVIOUS
    <3>1. servers' = Append(servers, m) /\ servers \in Seq(Server) /\ m.key = k
      BY <1>0, <1>1, <2>1 DEF RentTypes
    <3>2. Len(servers) + 1 \in Rent!Ids' /\ servers'[Len(servers) + 1] = m
      BY <3>1 DEF Rent!Ids
    <3> QED
      BY <1>4, <3>1, <3>2 DEF Spare
  <2>3. call' = [call EXCEPT ![c] = [x EXCEPT !.step = "cleanup", !.error = TRUE]]
    BY <1>1, <2>1, <2>2 DEF Rent!Effect
  <2>4. call'[c] = [x EXCEPT !.step = "cleanup", !.error = TRUE]
    BY <1>0, <2>3 DEF RentTypes
  <2> QED
    BY <2>1, <2>4 DEF InHand, Rental
<1>5. Spare' \subseteq Spare
  <2>1. \A k \in Spare' : k \in keys
    BY <1>2 DEF Spare
  <2> QED
    BY <1>2, <1>3, <1>4, <2>1, SpareBefore
<1> QED
  BY <1>2, <1>5, KeysCounted

\* The other steps neither make nor remove a key, and who takes them has none in hand.
LEMMA KeysRest ==
    ASSUME KeyInv, RentInv', NEW c \in Callers,
           \/ \E n \in Names : Rent!Create(c, n)
           \/ Rent!Find(c) \/ Rent!ListKeys(c) \/ Rent!Answer(c) \/ Rent!Destroy(c) \/ Rent!Read(c)
    PROVE  KeyInv'
<1>0. RentTypes
  BY DEF KeyInv, RentInv
<1>1. UNCHANGED <<keys, leaks>>
  BY Zenon DEF Rent!Create, Rent!Find, Rent!ListKeys, Rent!Answer, Rent!Destroy, Rent!Read
<1>2. \A k : ~InHand(c, k)
  <2>1. call[c].step \in {"idle", "find", "list", "audit", "answered"}
    BY Zenon DEF Rent!Create, Rent!Find, Rent!ListKeys, Rent!Answer, Rent!Destroy, Rent!Read
  <2> QED
    BY <2>1 DEF InHand
<1>3. \A d \in Callers \ {c} : call'[d] = call[d]
  <2>1. ASSUME NEW n \in Names, Rent!Create(c, n) PROVE \A d \in Callers \ {c} : call'[d] = call[d]
    <3>1. \E r : call' = [call EXCEPT ![c] = r]
      BY <2>1, Zenon DEF Rent!Create
    <3> QED
      BY <1>0, <3>1 DEF RentTypes
  <2>2. ASSUME Rent!Find(c) \/ Rent!ListKeys(c) PROVE \A d \in Callers \ {c} : call'[d] = call[d]
    <3>1. \/ \E s : call' = [call EXCEPT ![c].step = s]
          \/ \E s : call' = [call EXCEPT ![c].step = s, ![c].error = TRUE]
          \/ \E s, i : call' = [call EXCEPT ![c].step = s, ![c].id = i]
          \/ \E s, k : call' = [call EXCEPT ![c].step = s, ![c].key = k]
      BY <2>2, Zenon DEF Rent!Find, Rent!ListKeys, Rent!Goto, Rent!Failed
    <3> QED
      BY <1>0, <3>1 DEF RentTypes
  <2>3. ASSUME Rent!Answer(c) \/ Rent!Read(c) PROVE \A d \in Callers \ {c} : call'[d] = call[d]
    BY <1>0, <2>3 DEF Rent!Answer, Rent!Read, RentTypes
  <2>4. ASSUME Rent!Destroy(c) PROVE \A d \in Callers \ {c} : call'[d] = call[d]
    <3>1. \E r : call' = [call EXCEPT ![c] = r]
      BY <2>4, Zenon DEF Rent!Destroy
    <3> QED
      BY <1>0, <3>1 DEF RentTypes
  <2> QED
    BY <2>1, <2>2, <2>3, <2>4
<1>4. \A i \in Rent!Ids : i \in Rent!Ids' /\ servers'[i].key = servers[i].key
  <2>1. CASE servers' = servers
    BY <2>1 DEF Rent!Ids
  <2>2. CASE \E i \in Rent!Ids, v \in {"deleted", "cancelled"} : servers' = [servers EXCEPT ![i].state = v]
    <3> PICK i \in Rent!Ids, v \in {"deleted", "cancelled"} : servers' = [servers EXCEPT ![i].state = v]
      BY <2>2
    <3> PICK m : m = [servers[i] EXCEPT !.state = v]
      OBVIOUS
    <3>1. servers' = [servers EXCEPT ![i] = m] /\ servers \in Seq(Server) /\ i \in 1 .. Len(servers)
      BY <1>0 DEF RentTypes, Rent!Ids
    <3>1a. servers[i] \in Server
      BY <3>1
    <3>2. m.key = servers[i].key /\ m \in Server
      BY <3>1a DEF Server
    <3>3. Len(servers') = Len(servers) /\ servers'[i] = m /\ \A j \in 1 .. Len(servers) \ {i} : servers'[j] = servers[j]
      BY <3>1, <3>2
    <3> QED
      BY <3>2, <3>3 DEF Rent!Ids
  <2>3. servers' = servers \/ \E i \in Rent!Ids, v \in {"deleted", "cancelled"} : servers' = [servers EXCEPT ![i].state = v]
    BY Zenon DEF Rent!Create, Rent!Find, Rent!ListKeys, Rent!Answer, Rent!Destroy, Rent!Read
  <2> QED
    BY <2>1, <2>2, <2>3
<1>5. Spare' \subseteq Spare
  <2>1. \A k \in Spare' : k \in keys
    BY <1>1 DEF Spare
  <2> QED
    BY <1>2, <1>3, <1>4, <2>1, SpareBefore
<1> QED
  BY <1>1, <1>5, KeysCounted

LEMMA KeyInit == Rent!Init => KeyInv
<1> SUFFICES ASSUME Rent!Init PROVE KeyInv
  OBVIOUS
<1>1. keys \in {{}, {0}} /\ leaks = 0
  BY DEF Rent!Init
<1>2. Spare = {}
  BY <1>1 DEF Spare
<1> QED
  BY <1>1, <1>2, FS_EmptySet, RentInit DEF KeyInv

LEMMA KeyStep == KeyInv /\ [Rent!Next]_(Rent!provisioningVars) => KeyInv'
<1> SUFFICES ASSUME KeyInv, [Rent!Next]_(Rent!provisioningVars) PROVE KeyInv'
  OBVIOUS
<1>1. RentInv'
  BY RentStep DEF KeyInv
<1>2. CASE UNCHANGED Rent!provisioningVars
  <2>1. UNCHANGED <<keys, leaks, servers, call>>
    BY <1>2 DEF Rent!provisioningVars
  <2>2. Spare' = Spare
    BY <2>1 DEF Spare, InHand, Rent!Ids
  <2> QED
    BY <1>1, <2>1, <2>2 DEF KeyInv
<1> QED
  BY <1>1, <1>2, KeysMove, KeysUsed, KeysRest DEF Rent!Next

\* Once nobody is at it, the keys that no server uses are no more than the removals and answers
\* that failed.
LEMMA NothingIsLeft == KeyInv => Rent!NothingLeftBehind
<1> SUFFICES ASSUME KeyInv, \A c \in Callers : call[c].step \in {"idle", "answered"}
             PROVE  Cardinality(keys \ ({servers[i].key : i \in Rent!Ids} \cup {0})) <= leaks
  <2>1. \A S : Rent!Cardinality(S) = Cardinality(S)
    BY DEF Rent!Cardinality, Cardinality
  <2> QED
    BY <2>1 DEF Rent!NothingLeftBehind
<1>1. Spare = keys \ ({servers[i].key : i \in Rent!Ids} \cup {0})
  BY DEF Spare, InHand
<1> QED
  BY <1>1 DEF KeyInv

\* A create that is tried again after a lost answer, a refusal or a failed audit line rents no
\* second server of the name, what a call is told of its server is so, and no key is left behind
\* but those of which the answer or the removal failed (providers/contabo, providers/ovh,
\* api/providers.go).
THEOREM RetriesRentOnce ==
    Rent!Spec => [](Rent!OneServerPerName /\ Rent!AnswersAreTrue /\ Rent!NothingLeftBehind)
<1>1. KeyInv => Rent!OneServerPerName /\ Rent!AnswersAreTrue
  BY DEF KeyInv, RentInv, Verdict, Rent!AnswersAreTrue
<1> QED
  BY <1>1, NothingIsLeft, KeyInit, KeyStep, PTL DEF Rent!Spec

\* A key that the user had at the provider before is never removed: only a key the call made
\* itself is cleaned up (deleteSecret, deleteSSHKey).
THEOREM UserKeyNeverRemoved == Rent!Spec => [][Rent!UserKeyStays]_(Rent!provisioningVars)
<1>1. RentInv /\ [Rent!Next]_(Rent!provisioningVars) => [Rent!UserKeyStays]_(Rent!provisioningVars)
  <2> SUFFICES ASSUME RentInv, NEW c \in Callers,
                      \/ \E n \in Names : Rent!Create(c, n)
                      \/ Rent!Find(c) \/ Rent!ListKeys(c) \/ Rent!MakeKey(c) \/ Rent!Compute(c)
                      \/ Rent!Cleanup(c) \/ Rent!Answer(c) \/ Rent!Destroy(c) \/ Rent!Read(c)
               PROVE  Rent!UserKeyStays
    BY DEF Rent!Next
  <2>1. CASE Rent!Cleanup(c)
    <3>1. call[c].key # 0
      BY <2>1 DEF RentInv, OwnKey, Rent!Cleanup
    <3> QED
      BY <2>1, <3>1 DEF Rent!Cleanup, Rent!UserKeyStays
  <2>2. CASE Rent!MakeKey(c)
    BY <2>2 DEF Rent!MakeKey, Rent!UserKeyStays
  <2>3. CASE \/ \E n \in Names : Rent!Create(c, n)
             \/ Rent!Find(c) \/ Rent!ListKeys(c) \/ Rent!Compute(c)
    BY <2>3, Zenon DEF Rent!Create, Rent!Find, Rent!ListKeys, Rent!Compute, Rent!UserKeyStays
  <2>4. CASE Rent!Answer(c) \/ Rent!Destroy(c) \/ Rent!Read(c)
    BY <2>4, Zenon DEF Rent!Answer, Rent!Destroy, Rent!Read, Rent!UserKeyStays
  <2> QED
    BY <2>1, <2>2, <2>3, <2>4
<1> QED
  BY <1>1, RentInit, RentStep, PTL DEF Rent!Spec

-----------------------------------------------------------------------------
(* Upgrade.  What runs, what is installed, what is copied and what is about *)
(* to be installed is the old binary or a release that was trusted or whose *)
(* override is in the audit log; until something is installed, and once it  *)
(* has been put back, the binary is the one the upgrade found.              *)

CONSTANTS Releases, Facts, Old, Desktop, MaxWrites, MaxRequests
VARIABLES job, files, unit, audits
Up == INSTANCE Upgrade

Binaries == {Old} \cup Releases
Installed == [binary : Binaries, db : 0 .. MaxWrites, inventory : {Nothing, Old} \cup Releases]
Job == [release : Releases \cup {Nothing}, override : BOOLEAN, acknowledged : BOOLEAN, gone : BOOLEAN,
        verdict : {"none", "error", "override", "verified", "warning"},
        backup : Installed \cup {Nothing}, before : Installed \cup {Nothing}, errors : BOOLEAN]
UpTypes ==
    /\ state \in [phase : Up!Phases, mode : {"normal", "read_only"}, busy : BOOLEAN]
    /\ job \in Job /\ files \in Installed /\ unit \in Binaries \cup {Nothing}

May(binary) ==
    binary \in Releases => Up!Trusted(Facts[binary]) \/ <<"override", binary>> \in audits
Chosen == {"verifying", "backing_up", "stopping", "installing", "starting", "checking",
           "rolling_back", "restoring", "restarting"}
Verified == Chosen \ {"verifying"}
Saved == Verified \ {"backing_up"}
Undoing == {"rolling_back", "restoring", "restarting"}
Binary ==
    /\ May(unit) /\ May(files.binary)
    /\ state.busy => job.before \in Installed
    /\ state.busy /\ state.phase \in Chosen => job.release \in Releases
    /\ state.busy /\ state.phase \in Verified => May(job.release)
    /\ state.busy /\ state.phase \in Saved =>
          /\ job.backup \in Installed
          /\ job.backup.binary = job.before.binary /\ May(job.before.binary)
Whole ==
    /\ state.busy /\ state.phase \in {"fetching", "verifying", "backing_up", "stopping", "installing"} =>
          files.binary = job.before.binary
    /\ state.busy /\ state.phase = "restarting" /\ ~job.errors => files.binary = job.before.binary
    /\ Up!RolledBackIsWhole
    /\ state.busy => state.phase \in Chosen \cup {"fetching"}
UpInv == UpTypes /\ Binary /\ Whole

\* What the verifier lets pass was trusted, or its override has been recorded (Verifier.Verify).
LEMMA VerdictIsSound ==
    ASSUME Up!UpgradeConstants, NEW r \in Releases, NEW o \in BOOLEAN, NEW a \in BOOLEAN, NEW w \in BOOLEAN,
           NEW v, v = Up!Verdict(Facts[r], o, a, w).status
    PROVE  /\ v \in {"error", "override", "verified", "warning"}
           /\ v \in {"verified", "warning"} => Up!Trusted(Facts[r])
<1> PICK b : b = Facts[r]
  OBVIOUS
<1>1. b.level \in Int /\ b.minLevel \in Int
  BY DEF Up!UpgradeConstants
<1>2. b.manifest /\ ~Up!Fatal(b) => Up!Trusted(b)
  <2> SUFFICES ASSUME b.manifest, ~Up!Fatal(b) PROVE Up!Trusted(b)
    OBVIOUS
  <2>1. b.matches /\ Up!Signed(b) /\ Up!Attested(b) /\ Up!Listed(b)
    BY Zenon DEF Up!Fatal
  <2>2. b.parsed /\ b.agrees /\ b.subject /\ b.level >= b.minLevel
    BY <1>1, <2>1 DEF Up!Attested, Up!DefaultLevel
  <2>3. b.packages # {} /\ b.sized /\ \E i \in DOMAIN b.keys : b.keys[i].named /\ b.keys[i].verifies
    BY <2>1, Zenon DEF Up!Listed, Up!Signed
  <2> QED
    BY <2>1, <2>2, <2>3, Zenon DEF Up!Trusted
<1>3. CASE ~b.manifest
  BY <1>3 DEF Up!Verdict
<1>4. CASE b.manifest /\ Up!Fatal(b)
  BY <1>4 DEF Up!Verdict
<1>5. CASE b.manifest /\ ~Up!Fatal(b)
  BY <1>2, <1>5 DEF Up!Verdict
<1> QED
  BY <1>3, <1>4, <1>5

\* The state the service is in after finish and in a phase.
LEMMA UpInit == ASSUME Up!UpgradeConstants PROVE Up!Init => UpInv
<1> SUFFICES ASSUME Up!UpgradeConstants, Up!Init PROVE UpInv
  OBVIOUS
<1>1. /\ state = Up!Fresh /\ job = Up!NoJob /\ unit = Old
      /\ files \in [binary : {Old}, db : {0}, inventory : {Nothing, Old}]
  BY DEF Up!Init
<1>2. state \in [phase : Up!Phases, mode : {"normal", "read_only"}, busy : BOOLEAN] /\ ~state.busy
      /\ state.phase = "idle"
  BY <1>1 DEF Up!Fresh, Up!Phases
<1>3. job \in Job
  BY <1>1, Zenon DEF Up!NoJob, Job
<1>4. files \in Installed /\ unit \in Binaries /\ files.binary = Old
  BY <1>1 DEF Installed, Binaries, Up!UpgradeConstants
<1> QED
  BY <1>1, <1>2, <1>3, <1>4 DEF UpInv, UpTypes, Binary, Whole, May, Up!RolledBackIsWhole, Up!UpgradeConstants, Up!Phases

\* The audit log only grows: what may run may still run.
LEMMA MayGrows ==
    ASSUME audits \subseteq audits', NEW binary, May(binary)
    PROVE  May(binary)'
BY DEF May

\* The state after a change of phase and at the end.
LEMMA PhaseMoves ==
    ASSUME UpTypes, NEW p \in Up!Phases, Up!Phase(p)
    PROVE  /\ state' \in [phase : Up!Phases, mode : {"normal", "read_only"}, busy : BOOLEAN]
           /\ state'.phase = p /\ state'.busy = state.busy
BY DEF UpTypes, Up!Phase
LEMMA Finishes ==
    ASSUME NEW p \in Up!Phases, NEW keep, Up!Finish(p, keep)
    PROVE  /\ state' \in [phase : Up!Phases, mode : {"normal", "read_only"}, busy : BOOLEAN]
           /\ state'.phase = p /\ ~state'.busy
<1> PICK m : m = IF keep THEN "read_only" ELSE "normal"
  OBVIOUS
<1>1. m \in {"read_only", "normal"}
  OBVIOUS
<1> QED
  BY <1>1 DEF Up!Finish

\* systemctl runs what it was asked to, or leaves what ran.
LEMMA UnitMoves ==
    ASSUME NEW ok \in BOOLEAN, NEW target, Up!Systemctl(ok, target)
    PROVE  unit' \in {unit, target} /\ (ok => unit' = target)
BY DEF Up!Systemctl

\* Once it is over, what is installed and what runs is all that matters.
LEMMA OverKeeps ==
    ASSUME UpInv, state' \in [phase : Up!Phases, mode : {"normal", "read_only"}, busy : BOOLEAN],
           ~state'.busy, state'.phase # "rolled_back",
           job' \in Job, files' \in Installed, unit' \in Binaries \cup {Nothing},
           May(files.binary)', May(unit)'
    PROVE  UpInv'
BY DEF UpInv, UpTypes, Binary, Whole, Up!RolledBackIsWhole

\* A step that fails before anything has been installed.
LEMMA FailKeeps ==
    ASSUME Up!UpgradeConstants, UpInv, Up!Fail, UNCHANGED files, unit' \in {unit, Nothing}, job' \in Job
    PROVE  UpInv'
<1>1. "failed" \in Up!Phases
  BY DEF Up!Phases
<1>2. state' \in [phase : Up!Phases, mode : {"normal", "read_only"}, busy : BOOLEAN]
      /\ state'.phase = "failed" /\ ~state'.busy
  BY <1>1, Finishes, Zenon DEF Up!Fail
<1>3. May(files.binary)' /\ May(unit)' /\ files' \in Installed /\ unit' \in Binaries \cup {Nothing}
  <2>1. May(files.binary) /\ May(unit) /\ audits \subseteq audits'
    BY DEF UpInv, Binary, Up!Fail
  <2> QED
    BY <2>1 DEF May, UpInv, UpTypes, Up!UpgradeConstants
<1> QED
  BY <1>2, <1>3, OverKeeps

LEMMA UpBegins ==
    ASSUME Up!UpgradeConstants, UpInv, Up!Begin \/ Up!Cancel \/ Up!Fetch \/ Up!Write \/ Up!Crash
    PROVE  UpInv'
<1>0. UpTypes /\ Binary /\ Whole
  BY DEF UpInv
<1>1. CASE Up!Begin
  <2>1. PICK o \in BOOLEAN, a \in BOOLEAN :
           job' = [Up!NoJob EXCEPT !.override = o, !.acknowledged = a, !.before = files]
    BY <1>1, Zenon DEF Up!Begin
  <2>2. state' = [phase |-> "fetching", mode |-> "read_only", busy |-> TRUE] /\ UNCHANGED <<files, unit>>
        /\ audits \subseteq audits'
    BY <1>1, Zenon DEF Up!Begin
  <2>3. job' \in Job /\ job'.before = files
    <3> PICK z : z = Up!NoJob
      OBVIOUS
    <3>1. z \in Job
      BY Zenon DEF Up!NoJob, Job
    <3> QED
      BY <1>0, <2>1, <3>1 DEF Job, UpTypes
  <2>4. state' \in [phase : Up!Phases, mode : {"normal", "read_only"}, busy : BOOLEAN]
        /\ state'.phase = "fetching"
    BY <2>2 DEF Up!Phases
  <2>5. UpTypes'
    BY <1>0, <2>2, <2>3, <2>4 DEF UpTypes
  <2>6. Binary'
    BY <1>0, <2>2, <2>3, <2>4 DEF Binary, May, Chosen, Verified, Saved, UpTypes
  <2>7. Whole'
    BY <2>2, <2>3, <2>4 DEF Whole, Up!RolledBackIsWhole
  <2> QED
    BY <2>5, <2>6, <2>7 DEF UpInv
<1>2. CASE Up!Cancel
  <2>1. UNCHANGED <<state, files, unit, audits>> /\ job' = [job EXCEPT !.gone = TRUE]
    BY <1>2 DEF Up!Cancel
  <2>2. job' \in Job /\ job'.before = job.before /\ job'.backup = job.backup /\ job'.release = job.release
        /\ job'.errors = job.errors
    BY <1>0, <2>1 DEF UpTypes, Job
  <2>3. UpTypes' /\ Binary' /\ Whole'
    BY <1>0, <2>1, <2>2 DEF UpTypes, Binary, Whole, May, Up!RolledBackIsWhole
  <2> QED
    BY <2>3 DEF UpInv
<1>3. CASE Up!Fetch
  <2>1. CASE Up!Fail /\ UNCHANGED <<job, files, unit>>
    BY <1>0, <2>1, FailKeeps DEF UpTypes
  <2>2. ASSUME NEW r \in Releases, job' = [job EXCEPT !.release = r], Up!Phase("verifying"), UNCHANGED audits
        PROVE  UpInv'
    <3>0. "verifying" \in Up!Phases
      BY DEF Up!Phases
    <3>1. UNCHANGED <<files, unit>> /\ state.busy /\ state.phase = "fetching"
      BY <1>3 DEF Up!Fetch
    <3>2. job' \in Job /\ job'.before = job.before /\ job'.release = r
      BY <1>0, <2>2 DEF UpTypes, Job
    <3>3. /\ state' \in [phase : Up!Phases, mode : {"normal", "read_only"}, busy : BOOLEAN]
          /\ state'.phase = "verifying" /\ state'.busy = state.busy
      BY <1>0, <2>2, <3>0, PhaseMoves
    <3>4. UpTypes'
      BY <1>0, <3>1, <3>2, <3>3 DEF UpTypes
    <3>5. Binary'
      BY <1>0, <2>2, <3>1, <3>2, <3>3 DEF Binary, May, Chosen, Verified, Saved
    <3>6. Whole'
      BY <1>0, <3>1, <3>2, <3>3 DEF Whole, Up!RolledBackIsWhole, Chosen
    <3> QED
      BY <3>4, <3>5, <3>6 DEF UpInv
  <2> QED
    BY <1>3, <2>1, <2>2 DEF Up!Fetch
<1>4. CASE Up!Write
  <2>1. UNCHANGED <<state, job, unit, audits>> /\ files' = [files EXCEPT !.db = @ + 1] /\ files.db < MaxWrites
    BY <1>4 DEF Up!Write
  <2>2. files' \in Installed /\ files'.binary = files.binary
    <3> PICK n : n = files.db + 1
      OBVIOUS
    <3>1. n \in 0 .. MaxWrites /\ files' = [files EXCEPT !.db = n]
      BY <1>0, <2>1 DEF UpTypes, Installed, Up!UpgradeConstants
    <3> QED
      BY <1>0, <3>1 DEF UpTypes, Installed
  <2>3. UpTypes' /\ Binary' /\ Whole'
    BY <1>0, <2>1, <2>2 DEF UpTypes, Binary, Whole, May, Up!RolledBackIsWhole
  <2> QED
    BY <2>3 DEF UpInv
<1>5. CASE Up!Crash
  <2>1. state' = Up!Fresh /\ job' = Up!NoJob /\ UNCHANGED <<files, unit, audits>>
    BY <1>5 DEF Up!Crash
  <2>2. job' \in Job
    BY <2>1, Zenon DEF Up!NoJob, Job
  <2>3. state' \in [phase : Up!Phases, mode : {"normal", "read_only"}, busy : BOOLEAN]
        /\ ~state'.busy /\ state'.phase # "rolled_back"
    BY <2>1 DEF Up!Fresh, Up!Phases
  <2>4. /\ May(files.binary)' /\ May(unit)' /\ files' \in Installed /\ unit' \in Binaries \cup {Nothing}
    BY <1>0, <2>1 DEF May, Binary, UpTypes
  <2> QED
    BY <2>2, <2>3, <2>4, OverKeeps
<1> QED
  BY <1>1, <1>2, <1>3, <1>4, <1>5

\* A step from one phase to the next, with the facts that the next phase needs.
LEMMA GoingOn ==
    ASSUME UpInv, NEW p \in Chosen, Up!Phase(p), state.busy, NEW r \in Releases, NEW old \in Installed,
           job' \in Job, job'.release = r, job'.before = old,
           files' \in Installed, unit' \in Binaries \cup {Nothing},
           May(files.binary)', May(unit)',
           p \in Verified => May(r)',
           p \in Saved => /\ job'.backup \in Installed
                          /\ job'.backup.binary = old.binary /\ May(old.binary)',
           p \in {"verifying", "backing_up", "stopping", "installing"} => files'.binary = old.binary,
           p = "restarting" /\ ~job'.errors => files'.binary = old.binary
    PROVE  UpInv'
<1>1. p \in Up!Phases /\ p \notin {"fetching", "rolled_back"}
  BY DEF Chosen, Up!Phases
<1>2. /\ state' \in [phase : Up!Phases, mode : {"normal", "read_only"}, busy : BOOLEAN]
      /\ state'.phase = p /\ state'.busy = state.busy
  BY <1>1, PhaseMoves DEF UpInv
<1>3. UpTypes'
  BY <1>2 DEF UpTypes
<1>5. Binary'
  <2>1. May(job.release)' /\ May(job.before.binary)' <=> May(r)' /\ May(old.binary)'
    BY DEF May
  <2>2. p \in Saved => p \in Verified
    BY DEF Saved
  <2> QED
    BY <1>2, <2>1, <2>2 DEF Binary, May
<1>6. Whole'
  BY <1>1, <1>2 DEF Whole, Up!RolledBackIsWhole
<1> QED
  BY <1>3, <1>5, <1>6 DEF UpInv

LEMMA UpVerifies == ASSUME Up!UpgradeConstants, UpInv, Up!VerifyRelease PROVE UpInv'
<1>0. UpTypes /\ Binary /\ Whole /\ state.busy /\ state.phase = "verifying" /\ UNCHANGED <<files, unit>>
  BY DEF UpInv, Up!VerifyRelease
<1> PICK r, old : r = job.release /\ old = job.before
  OBVIOUS
<1>1. r \in Releases /\ job.override \in BOOLEAN /\ job.acknowledged \in BOOLEAN
  BY <1>0 DEF Binary, Chosen, UpTypes, Job
<1>2. PICK recorded \in BOOLEAN :
         /\ job' = [job EXCEPT !.verdict =
                       Up!Verdict(Facts[job.release], job.override, job.acknowledged, recorded).status]
         /\ LET v == Up!Verdict(Facts[job.release], job.override, job.acknowledged, recorded).status
                go == v # "error" /\ Up!Compatible(Facts[job.release], Desktop)
            IN  /\ IF go THEN Up!Phase("backing_up") ELSE Up!Finish("failed", FALSE)
                /\ audits' = audits \cup
                     (IF v = "override" THEN {<<"override", job.release>>} ELSE {}) \cup
                     (IF go THEN {} ELSE {<<"failed", job.release>>})
  BY Zenon DEF Up!VerifyRelease
<1> PICK v : v = Up!Verdict(Facts[r], job.override, job.acknowledged, recorded).status
  OBVIOUS
<1>3. v \in {"error", "override", "verified", "warning"} /\ (v \in {"verified", "warning"} => Up!Trusted(Facts[r]))
  BY <1>1, VerdictIsSound
<1>4. /\ job' = [job EXCEPT !.verdict = v] /\ audits \subseteq audits'
      /\ v = "override" => <<"override", r>> \in audits'
  BY <1>2, Zenon
<1>5. job' \in Job /\ job'.before = old /\ job'.release = r
  BY <1>0, <1>3, <1>4 DEF UpTypes, Job
<1>6. May(files.binary)' /\ May(unit)' /\ files' \in Installed /\ unit' \in Binaries \cup {Nothing}
  BY <1>0, <1>4 DEF May, Binary, UpTypes
<1>7. CASE Up!Phase("backing_up") /\ v # "error"
  <2>1. May(r)'
    BY <1>3, <1>4, <1>7 DEF May
  <2>2. files'.binary = old.binary /\ old \in Installed
    BY <1>0 DEF Whole, Binary
  <2>3. "backing_up" \in Chosen /\ "backing_up" \notin Saved
    BY DEF Chosen, Saved, Verified
  <2> QED
    BY <1>0, <1>1, <1>5, <1>6, <1>7, <2>1, <2>2, <2>3, GoingOn
<1>8. CASE Up!Finish("failed", FALSE)
  <2>1. "failed" \in Up!Phases
    BY DEF Up!Phases
  <2>2. state' \in [phase : Up!Phases, mode : {"normal", "read_only"}, busy : BOOLEAN]
        /\ state'.phase = "failed" /\ ~state'.busy
    BY <1>8, <2>1, Finishes
  <2> QED
    BY <1>5, <1>6, <2>2, OverKeeps
<1> QED
  BY <1>2, <1>7, <1>8, Zenon

LEMMA UpPrepares == ASSUME Up!UpgradeConstants, UpInv, Up!Backup \/ Up!Stop PROVE UpInv'
<1>0. UpTypes /\ Binary /\ Whole /\ state.busy /\ state.phase \in {"backing_up", "stopping"} /\ UNCHANGED files
  BY DEF UpInv, Up!Backup, Up!Stop
<1>1. state.phase \in Chosen /\ state.phase \in Verified /\ {"stopping", "installing"} \subseteq Chosen
  BY <1>0 DEF Chosen, Verified
<1> PICK r, old : r = job.release /\ old = job.before
  OBVIOUS
<1>2. /\ r \in Releases /\ May(r) /\ May(files.binary) /\ May(unit) /\ old \in Installed
      /\ files.binary = old.binary /\ job \in Job /\ files \in Installed
      /\ unit \in Binaries \cup {Nothing}
  BY <1>0, <1>1 DEF Binary, Whole, UpTypes
<1>3. CASE Up!Backup
  <2>1. CASE Up!Fail /\ UNCHANGED <<job, unit>>
    BY <1>0, <1>2, <2>1, FailKeeps
  <2>2. CASE job' = [job EXCEPT !.backup = files] /\ Up!Phase("stopping") /\ UNCHANGED <<audits, unit>>
    <3>1. job' \in Job /\ job'.before = old /\ job'.release = r /\ job'.backup = files
      BY <1>2, <2>2 DEF Job
    <3>2. /\ files' \in Installed /\ unit' \in Binaries \cup {Nothing} /\ May(files.binary)' /\ May(unit)'
          /\ May(r)' /\ May(old.binary)' /\ job'.backup.binary = old.binary
          /\ job'.backup \in Installed /\ files'.binary = old.binary
      BY <1>0, <1>2, <2>2, <3>1 DEF May
    <3> QED
      BY <1>0, <1>1, <1>2, <2>2, <3>1, <3>2, GoingOn
  <2> QED
    BY <1>3, <2>1, <2>2 DEF Up!Backup
<1>4. CASE Up!Stop
  <2>1. PICK ok \in BOOLEAN :
           /\ Up!Systemctl(ok, Nothing)
           /\ IF ok THEN Up!Phase("installing") /\ UNCHANGED audits ELSE Up!Fail
    BY <1>4, Zenon DEF Up!Stop, Up!Outcomes
  <2>2. unit' \in {unit, Nothing} /\ UNCHANGED job
    BY <1>4, <2>1, UnitMoves DEF Up!Stop
  <2>3. CASE Up!Fail
    BY <1>0, <1>2, <2>2, <2>3, FailKeeps
  <2>4. CASE Up!Phase("installing") /\ UNCHANGED audits
    <3>1. job.backup \in Installed /\ job.backup.binary = old.binary /\ May(old.binary)
      BY <1>0, <1>4 DEF Binary, Saved, Verified, Chosen, Up!Stop
    <3>2. /\ files' \in Installed /\ unit' \in Binaries \cup {Nothing} /\ May(files.binary)' /\ May(unit)'
          /\ May(r)' /\ May(old.binary)' /\ job'.backup.binary = old.binary
          /\ job'.backup \in Installed /\ files'.binary = old.binary
          /\ job' \in Job /\ job'.before = old /\ job'.release = r
      BY <1>0, <1>2, <2>2, <2>4, <3>1 DEF May, Up!UpgradeConstants
    <3> QED
      BY <1>0, <1>1, <1>2, <2>4, <3>2, GoingOn
  <2> QED
    BY <2>1, <2>3, <2>4
<1> QED
  BY <1>3, <1>4

LEMMA UpInstalls == ASSUME Up!UpgradeConstants, UpInv, Up!Install \/ Up!Start \/ Up!Check PROVE UpInv'
<1>0. /\ UpTypes /\ Binary /\ Whole /\ state.busy /\ state.phase \in {"installing", "starting", "checking"}
      /\ UNCHANGED job
  BY DEF UpInv, Up!Install, Up!Start, Up!Check
<1>1. state.phase \in Chosen /\ state.phase \in Verified /\ state.phase \in Saved
      /\ {"starting", "checking", "rolling_back"} \subseteq Chosen
  BY <1>0 DEF Chosen, Verified, Saved
<1> PICK r, old : r = job.release /\ old = job.before
  OBVIOUS
<1>2. /\ r \in Releases /\ May(r) /\ May(files.binary) /\ May(unit) /\ old \in Installed
      /\ job \in Job /\ files \in Installed /\ unit \in Binaries \cup {Nothing}
      /\ job.backup \in Installed /\ job.backup.binary = old.binary /\ May(old.binary)
  BY <1>0, <1>1 DEF Binary, UpTypes
<1>3. job' \in Job /\ job'.before = old /\ job'.release = r
      /\ job'.backup \in Installed /\ job'.backup.binary = old.binary
  BY <1>0, <1>2
<1>4. ASSUME NEW p \in {"starting", "checking", "rolling_back"}, Up!Phase(p), audits' = audits,
             files' \in Installed, unit' \in Binaries \cup {Nothing}, May(files.binary)', May(unit)'
      PROVE  UpInv'
  <2>1. May(r)' /\ May(old.binary)'
    BY <1>2, <1>4 DEF May
  <2>2. p \in Chosen /\ p \notin {"verifying", "backing_up", "stopping", "installing", "restarting"}
    BY <1>1
  <2> QED
    BY <1>0, <1>2, <1>3, <1>4, <2>1, <2>2, GoingOn
<1>5. CASE Up!Install
  <2>1. PICK ok \in BOOLEAN :
           /\ files' \in IF ok THEN {[files EXCEPT !.binary = job.release, !.inventory = job.release]}
                         ELSE IF job.gone THEN {files} ELSE {files, [files EXCEPT !.binary = job.release]}
           /\ Up!Phase(IF ok THEN "starting" ELSE "rolling_back")
    BY <1>5, Zenon DEF Up!Install, Up!Outcomes
  <2>2. UNCHANGED <<unit, audits>>
    BY <1>5 DEF Up!Install
  <2>3. files' \in {files, [files EXCEPT !.binary = r], [files EXCEPT !.binary = r, !.inventory = r]}
    BY <2>1
  <2>4. files' \in Installed /\ files'.binary \in {files.binary, r}
    BY <1>2, <2>3 DEF Installed, Binaries
  <2>5. May(files.binary)' /\ May(unit)'
    BY <1>2, <2>2, <2>4 DEF May
  <2>6. CASE ok
    BY <1>2, <1>4, <2>1, <2>2, <2>4, <2>5, <2>6
  <2>7. CASE ~ok
    BY <1>2, <1>4, <2>1, <2>2, <2>4, <2>5, <2>7
  <2> QED
    BY <2>6, <2>7
<1>6. CASE Up!Start
  <2>1. PICK ok \in BOOLEAN :
           /\ Up!Systemctl(ok, files.binary)
           /\ Up!Phase(IF ok THEN "checking" ELSE "rolling_back")
    BY <1>6, Zenon DEF Up!Start, Up!Outcomes
  <2>2. UNCHANGED <<files, audits>> /\ unit' \in {unit, files.binary}
    BY <1>6, <2>1, UnitMoves DEF Up!Start
  <2>3. files' \in Installed /\ unit' \in Binaries \cup {Nothing} /\ May(files.binary)' /\ May(unit)'
    BY <1>2, <2>2 DEF May, Installed
  <2>4. CASE ok
    BY <1>4, <2>1, <2>2, <2>3, <2>4
  <2>5. CASE ~ok
    BY <1>4, <2>1, <2>2, <2>3, <2>5
  <2> QED
    BY <2>4, <2>5
<1>7. CASE Up!Check
  <2>1. UNCHANGED <<files, unit>> /\ audits \subseteq audits'
        /\ (Up!Finish("succeeded", FALSE) \/ (Up!Phase("rolling_back") /\ audits' = audits))
    BY <1>7 DEF Up!Check
  <2>2. files' \in Installed /\ unit' \in Binaries \cup {Nothing} /\ May(files.binary)' /\ May(unit)'
    BY <1>2, <2>1 DEF May
  <2>3. CASE Up!Finish("succeeded", FALSE)
    <3>1. "succeeded" \in Up!Phases
      BY DEF Up!Phases
    <3>2. state' \in [phase : Up!Phases, mode : {"normal", "read_only"}, busy : BOOLEAN]
          /\ state'.phase = "succeeded" /\ ~state'.busy
      BY <2>3, <3>1, Finishes
    <3> QED
      BY <1>3, <2>2, <3>2, OverKeeps DEF UpInv
  <2>4. CASE Up!Phase("rolling_back") /\ audits' = audits
    BY <1>4, <2>2, <2>4
  <2> QED
    BY <2>1, <2>3, <2>4
<1> QED
  BY <1>5, <1>6, <1>7

\* rollback: the last of its steps reports a rollback only if none of the three has failed.
LEMMA UpRollsBack ==
    ASSUME Up!UpgradeConstants, UpInv, Up!RollbackStop \/ Up!RollbackRestore \/ Up!RollbackStart
    PROVE  UpInv'
<1>0. /\ UpTypes /\ Binary /\ Whole /\ state.busy /\ state.phase \in Undoing
  BY DEF UpInv, Up!RollbackStop, Up!RollbackRestore, Up!RollbackStart, Undoing
<1>1. state.phase \in Chosen /\ state.phase \in Verified /\ state.phase \in Saved
      /\ {"restoring", "restarting"} \subseteq Chosen
  BY <1>0 DEF Chosen, Verified, Saved, Undoing
<1> PICK r, old : r = job.release /\ old = job.before
  OBVIOUS
<1>2. /\ r \in Releases /\ May(r) /\ May(files.binary) /\ May(unit) /\ old \in Installed
      /\ job \in Job /\ files \in Installed /\ unit \in Binaries \cup {Nothing}
      /\ job.backup \in Installed /\ job.backup.binary = old.binary /\ May(old.binary)
  BY <1>0, <1>1 DEF Binary, UpTypes
<1>3. ASSUME NEW ok \in BOOLEAN, job' = [job EXCEPT !.errors = @ \/ ~ok]
      PROVE  /\ job' \in Job /\ job'.before = old /\ job'.release = r
             /\ job'.backup \in Installed /\ job'.backup.binary = old.binary
             /\ ~job'.errors => ok /\ ~job.errors
  <2> PICK e \in BOOLEAN : e = (job.errors \/ ~ok)
    BY Zenon
  <2>1. job' = [job EXCEPT !.errors = e]
    BY <1>2, <1>3, Zenon
  <2>2. job' \in Job /\ job'.errors = e /\ job'.before = job.before /\ job'.release = job.release
        /\ job'.backup = job.backup
    BY <1>2, <2>1 DEF Job
  <2> QED
    BY <1>2, <2>2
<1>4. CASE Up!RollbackStop
  <2>1. PICK ok \in BOOLEAN : Up!Systemctl(ok, Nothing) /\ job' = [job EXCEPT !.errors = @ \/ ~ok]
    BY <1>4, Zenon DEF Up!RollbackStop, Up!Outcomes
  <2>2. UNCHANGED <<files, audits>> /\ unit' \in {unit, Nothing} /\ Up!Phase("restoring")
    BY <1>4, <2>1, UnitMoves DEF Up!RollbackStop
  <2>3. files' \in Installed /\ unit' \in Binaries \cup {Nothing} /\ May(files.binary)' /\ May(unit)'
        /\ May(r)' /\ May(old.binary)'
    BY <1>2, <2>2 DEF May, Up!UpgradeConstants
  <2> QED
    BY <1>0, <1>1, <1>2, <1>3, <2>1, <2>2, <2>3, GoingOn
<1>5. CASE Up!RollbackRestore
  <2> PICK back : back = [files EXCEPT !.binary = IF job.backup.binary = Nothing THEN @ ELSE job.backup.binary]
    OBVIOUS
  <2>1. PICK ok \in BOOLEAN :
           /\ files' \in IF ok THEN {[back EXCEPT !.db = job.backup.db]}
                         ELSE IF job.gone THEN {files} ELSE {files, back}
           /\ job' = [job EXCEPT !.errors = @ \/ ~ok]
    BY <1>5, Zenon DEF Up!RollbackRestore, Up!Outcomes
  <2>2. UNCHANGED <<unit, audits>> /\ Up!Phase("restarting")
    BY <1>5 DEF Up!RollbackRestore
  <2>3. back = [files EXCEPT !.binary = old.binary] /\ old.binary \in Binaries /\ job.backup.db \in 0 .. MaxWrites
    <3>1. old.binary \in Binaries /\ job.backup.db \in 0 .. MaxWrites
      BY <1>2 DEF Installed
    <3>2. job.backup.binary # Nothing
      BY <1>2, <3>1 DEF Binaries, Up!UpgradeConstants
    <3> QED
      BY <1>2, <3>1, <3>2
  <2>4. files' \in {files, back, [back EXCEPT !.db = job.backup.db]}
        /\ (ok => files' = [back EXCEPT !.db = job.backup.db])
    BY <2>1
  <2>5. back \in Installed /\ back.binary = old.binary
    BY <1>2, <2>3 DEF Installed
  <2>6. [back EXCEPT !.db = job.backup.db] \in Installed /\ [back EXCEPT !.db = job.backup.db].binary = old.binary
    BY <2>3, <2>5 DEF Installed
  <2>7. files' \in Installed /\ unit' \in Binaries \cup {Nothing} /\ May(files.binary)' /\ May(unit)'
        /\ May(r)' /\ May(old.binary)'
    BY <1>2, <2>2, <2>4, <2>5, <2>6 DEF May
  <2>8. ok => files'.binary = old.binary
    BY <2>4, <2>6
  <2> QED
    BY <1>0, <1>1, <1>2, <1>3, <2>1, <2>2, <2>7, <2>8, GoingOn
<1>6. CASE Up!RollbackStart
  <2>1. PICK ok \in BOOLEAN :
           /\ Up!Systemctl(ok, files.binary)
           /\ IF ok /\ ~job.errors
              THEN /\ Up!Finish("rolled_back", FALSE)
                   /\ audits' = audits \cup {<<"rolled_back", job.release>>}
              ELSE /\ Up!Finish("failed", TRUE)
                   /\ audits' = audits \cup {<<"failed", job.release>>}
           /\ job' = [job EXCEPT !.errors = @ \/ ~ok]
    BY <1>6, Zenon DEF Up!RollbackStart, Up!Outcomes
  <2>2. UNCHANGED files /\ unit' \in {unit, files.binary} /\ (ok => unit' = files.binary)
        /\ audits \subseteq audits' /\ state.phase = "restarting"
    BY <1>6, <2>1, UnitMoves DEF Up!RollbackStart
  <2>3. files' \in Installed /\ unit' \in Binaries \cup {Nothing} /\ May(files.binary)' /\ May(unit)'
    BY <1>2, <2>2 DEF May, Installed
  <2>4. {"rolled_back", "failed"} \subseteq Up!Phases
    BY DEF Up!Phases
  <2>5. CASE ok /\ ~job.errors
    <3>1. Up!Finish("rolled_back", FALSE)
      BY <2>1, <2>5
    <3>2. state' \in [phase : Up!Phases, mode : {"normal", "read_only"}, busy : BOOLEAN]
          /\ state'.phase = "rolled_back" /\ ~state'.busy
      BY <2>4, <3>1, Finishes
    <3>3. unit' = job'.before.binary /\ files'.binary = job'.before.binary /\ job' \in Job
      BY <1>0, <1>2, <1>3, <2>1, <2>2, <2>5 DEF Whole
    <3>4. UpTypes'
      BY <2>3, <3>2, <3>3 DEF UpTypes
    <3>5. Binary'
      BY <2>3, <3>2 DEF Binary
    <3>6. Whole'
      BY <3>2, <3>3 DEF Whole, Up!RolledBackIsWhole
    <3> QED
      BY <3>4, <3>5, <3>6 DEF UpInv
  <2>6. CASE ~(ok /\ ~job.errors)
    <3>1. Up!Finish("failed", TRUE)
      BY <2>1, <2>6
    <3>2. state' \in [phase : Up!Phases, mode : {"normal", "read_only"}, busy : BOOLEAN]
          /\ state'.phase = "failed" /\ ~state'.busy
      BY <2>4, <3>1, Finishes
    <3> QED
      BY <1>3, <2>1, <2>3, <3>2, OverKeeps DEF UpInv
  <2> QED
    BY <2>5, <2>6
<1> QED
  BY <1>4, <1>5, <1>6

LEMMA UpStep == ASSUME Up!UpgradeConstants PROVE UpInv /\ [Up!Next]_(Up!vars) => UpInv'
<1> SUFFICES ASSUME UpInv, [Up!Next]_(Up!vars) PROVE UpInv'
  OBVIOUS
<1>1. CASE UNCHANGED Up!vars
  BY <1>1 DEF Up!vars, UpInv, UpTypes, Binary, Whole, May, Up!RolledBackIsWhole
<1> QED
  BY <1>1, UpBegins, UpVerifies, UpPrepares, UpInstalls, UpRollsBack DEF Up!Next

\* Whatever fails, is cancelled or crashes, no release runs that was not trusted, unless its
\* override is in the audit log; and a rollback that is reported as done has put back, and runs,
\* the binary that the upgrade found (upgrade/service.go, release/verification.go).
THEOREM OnlySoundReleases ==
    ASSUME Up!UpgradeConstants
    PROVE  Up!Spec => [](Up!UpgradeTypeOK /\ Up!OnlyTrustedRuns /\ Up!RolledBackIsWhole)
<1>1. UpInv => Up!UpgradeTypeOK /\ Up!OnlyTrustedRuns /\ Up!RolledBackIsWhole
  <2> SUFFICES ASSUME UpInv PROVE Up!UpgradeTypeOK /\ Up!OnlyTrustedRuns
    BY DEF UpInv, Whole
  <2>1. Up!UpgradeTypeOK
    BY DEF UpInv, UpTypes, Up!UpgradeTypeOK, Installed, Binaries
  <2>2. Up!OnlyTrustedRuns
    BY DEF UpInv, Binary, May, Up!OnlyTrustedRuns
  <2> QED
    BY <2>1, <2>2
<1> QED
  BY <1>1, UpInit, UpStep, PTL DEF Up!Spec

-----------------------------------------------------------------------------
(* AuditLog.  The numbers in the file have a bound, so that each project   *)
(* has a highest one, and what is appended is numbered from there.         *)

CONSTANTS Writers, Projects, Actors, Actions, Bad, MaxLines
VARIABLES file, writer, answered
Log == INSTANCE AuditLog

Line == Log!Entry \cup {Bad, Log!Legacy}
Bounded == \E b \in Nat : \A n \in DOMAIN file : file[n] # Bad => file[n].seq <= b
LogInv ==
    /\ file \in Seq(Line) /\ Bounded
    /\ writer = [w \in Writers |-> writer[w]]
    /\ \A w \in Writers : writer[w] # Nothing => writer[w].seqs \in [Projects -> Nat]
    /\ Log!SequencesIncrease /\ Log!AcceptedIsWritten

\* Every line that can be decoded has a number.
LEMMA LinesAreNumbered == ASSUME NEW l \in Line, l # Bad PROVE l.seq \in Nat
BY DEF Line, Log!Entry, Log!Legacy

\* A bounded set of numbers that is not empty has a greatest.
LEMMA GreatestExists ==
    ASSUME NEW T, T \subseteq Nat, T # {}, NEW b \in Nat, \A x \in T : x <= b
    PROVE  \E x \in T : \A y \in T : y <= x
<1> DEFINE B == {u \in Nat : \A x \in T : x <= u}
<1>1. B \subseteq Nat /\ B # {}
  BY DEF B
<1>2. PICK u \in B : \A v \in B : u <= v
  BY <1>1, LeastExists
<1>3. u \in T
  <2> SUFFICES ASSUME u \notin T PROVE FALSE
    OBVIOUS
  <2>1. \A x \in T : x < u
    BY DEF B
  <2>2. u - 1 \in Nat /\ \A x \in T : x <= u - 1
    <3>1. PICK x \in T : TRUE
      OBVIOUS
    <3> QED
      BY <2>1, <3>1
  <2>3. u - 1 \in B
    BY <2>2
  <2> QED
    BY <1>1, <1>2, <2>3
<1> QED
  BY <1>3 DEF B

\* refreshSequencesFromFileLocked reads the highest number of each project.
LEMMA HighestIsHighest ==
    ASSUME file \in Seq(Line), Bounded, Log!Readable, NEW p
    PROVE  /\ Log!Highest(p) \in Nat
           /\ \A n \in DOMAIN file : file[n].project = p => file[n].seq <= Log!Highest(p)
<1> DEFINE T == {file[n].seq : n \in {m \in DOMAIN file : file[m].project = p}}
<1>1. \A n \in DOMAIN file : file[n].seq \in Nat
  BY LinesAreNumbered DEF Log!Readable
<1>2. T \subseteq Nat
  BY <1>1
<1>3. PICK b \in Nat : \A n \in DOMAIN file : file[n].seq <= b
  BY DEF Bounded, Log!Readable
<1>4. \A x \in T : x <= b
  BY <1>3
<1>5. Log!Highest(p) = IF T = {} THEN 0 ELSE CHOOSE s \in T : \A t \in T : t <= s
  BY DEF Log!Highest
<1> HIDE DEF T
<1>6. CASE T = {}
  <2>1. \A n \in DOMAIN file : file[n].project # p
    BY <1>6 DEF T
  <2> QED
    BY <1>5, <1>6, <2>1
<1>7. CASE T # {}
  <2>1. \E x \in T : \A y \in T : y <= x
    BY <1>2, <1>4, <1>7, GreatestExists
  <2>2. Log!Highest(p) \in T /\ \A y \in T : y <= Log!Highest(p)
    BY <1>5, <1>7, <2>1, Zenon
  <2> QED
    BY <1>2, <2>2 DEF T
<1> QED
  BY <1>6, <1>7

\* The records of one Append: of one project, numbered from above what the file has.
Follows(rs, p) ==
    /\ rs \in Seq(Log!Entry) /\ Len(rs) \in {1, 2}
    /\ \A n \in 1 .. Len(rs) : rs[n].project = p
    /\ \A m, n \in 1 .. Len(rs) : m < n => rs[m].seq < rs[n].seq
    /\ \A n \in 1 .. Len(rs), m \in DOMAIN file : file[m].project = p => file[m].seq < rs[n].seq
    /\ \E b \in Nat : \A n \in 1 .. Len(rs) : rs[n].seq <= b
LEMMA RecordsFollow ==
    ASSUME LogInv, NEW w \in Writers, NEW p \in Projects, NEW a \in Actors, NEW k \in Actions,
           NEW t \in 0 .. 1, writer[w] # Nothing, Log!Readable,
           NEW rs, rs = Log!Records(w, p, a, k, t)
    PROVE  Follows(rs, p)
<1> PICK s : s = Log!RefreshedSeq(w, p)
  OBVIOUS
<1>1. Log!Highest(p) \in Nat /\ \A n \in DOMAIN file : file[n].project = p => file[n].seq <= Log!Highest(p)
  BY HighestIsHighest DEF LogInv
<1>2. writer[w].seqs[p] \in Nat
  BY DEF LogInv
<1>3. s \in Nat /\ Log!Highest(p) <= s
  BY <1>1, <1>2 DEF Log!RefreshedSeq
<1>4. rs = [n \in 1 .. 1 + t |-> [project |-> p, seq |-> s + n,
                                  actor |-> IF n = 1 THEN a ELSE Log!Daemon,
                                  action |-> IF n = 1 THEN k ELSE Log!Trace]]
  BY DEF Log!Records
<1>5. \A n \in 1 .. 1 + t : rs[n].project = p /\ rs[n].seq = s + n
  BY <1>4
<1>6. \A n \in 1 .. 1 + t : rs[n] \in Log!Entry
  <2> TAKE n \in 1 .. 1 + t
  <2>1. s + n \in Nat
    BY <1>3
  <2>2. CASE n = 1
    BY <1>4, <2>1, <2>2 DEF Log!Entry
  <2>3. CASE n # 1
    BY <1>4, <2>1, <2>3 DEF Log!Entry
  <2> QED
    BY <2>2, <2>3
<1>7. rs \in Seq(Log!Entry) /\ Len(rs) = 1 + t
  BY <1>4, <1>6
<1>8. \A n \in 1 .. Len(rs), m \in DOMAIN file : file[m].project = p => file[m].seq < rs[n].seq
  <2> TAKE n \in 1 .. Len(rs), m \in DOMAIN file
  <2>1. file[m].seq \in Nat
    BY LinesAreNumbered DEF Log!Readable, LogInv
  <2> QED
    BY <1>1, <1>3, <1>5, <1>7, <2>1
<1>9. \E b \in Nat : \A n \in 1 .. Len(rs) : rs[n].seq <= b
  <2>1. s + 1 + t \in Nat /\ \A n \in 1 .. Len(rs) : rs[n].seq <= s + 1 + t
    BY <1>3, <1>5, <1>7
  <2> QED
    BY <2>1
<1>10. \A n \in 1 .. Len(rs) : rs[n].project = p
  BY <1>5, <1>7
<1>11. \A m, n \in 1 .. Len(rs) : m < n => rs[m].seq < rs[n].seq
  BY <1>3, <1>5, <1>7
<1>12. Len(rs) \in {1, 2}
  BY <1>7
<1> QED
  BY <1>7, <1>8, <1>9, <1>10, <1>11, <1>12 DEF Follows

\* What a write of the first n records leaves in the file and in the writer.
LEMMA WrittenIs ==
    ASSUME LogInv, NEW w \in Writers, NEW p \in Projects, writer[w] # Nothing,
           NEW rs \in Seq(Log!Entry), Len(rs) > 0, NEW n \in 0 .. Len(rs), NEW torn \in BOOLEAN,
           Log!Written(w, p, rs, n, torn)
    PROVE  /\ file' \in Seq(Line) /\ Len(file') \in {Len(file) + n, Len(file) + n + 1}
           /\ \A i \in 1 .. Len(file) : file'[i] = file[i]
           /\ \A i \in 1 .. n : file'[Len(file) + i] = rs[i]
           /\ \A i \in 1 .. Len(file') : i > Len(file) + n => file'[i] = Bad
           /\ writer' = [v \in Writers |-> writer'[v]]
           /\ \A v \in Writers : writer'[v] # Nothing => writer'[v].seqs \in [Projects -> Nat]
<1>1. file \in Seq(Line) /\ Bad \in Line /\ \A l \in Log!Entry : l \in Line
  BY DEF LogInv, Line
<1>a. PICK part : part = SubSeq(rs, 1, n)
  OBVIOUS
<1>2. part \in Seq(Line) /\ Len(part) = n /\ \A i \in 1 .. n : part[i] = rs[i]
  BY <1>1, <1>a
<1>b. PICK half : half = IF torn THEN <<Bad>> ELSE <<>>
  OBVIOUS
<1>3. half \in Seq(Line) /\ Len(half) \in {0, 1} /\ \A i \in 1 .. Len(half) : half[i] = Bad
  BY <1>1, <1>b
<1>c. PICK most : most = file \o part
  OBVIOUS
<1>d. PICK all : all = most \o half
  OBVIOUS
<1>4. file' = all
  BY <1>a, <1>b, <1>c, <1>d DEF Log!Written
<1>5. /\ most \in Seq(Line) /\ Len(most) = Len(file) + n /\ Len(file) \in Nat
      /\ \A i \in 1 .. Len(file) : most[i] = file[i]
      /\ \A i \in 1 .. n : most[Len(file) + i] = rs[i]
  <2>1. file \in Seq(Line) /\ part \in Seq(Line)
    BY <1>1, <1>2
  <2>2. /\ most \in Seq(Line) /\ Len(most) = Len(file) + Len(part) /\ Len(file) \in Nat
        /\ \A i \in 1 .. Len(file) : most[i] = file[i]
        /\ \A i \in 1 .. Len(part) : most[Len(file) + i] = part[i]
    BY <2>1, <1>c
  <2> QED
    BY <1>2, <2>2
<1>6a. /\ all \in Seq(Line) /\ Len(all) = Len(most) + Len(half)
       /\ \A i \in 1 .. Len(most) : all[i] = most[i]
       /\ \A i \in 1 .. Len(half) : all[Len(most) + i] = half[i]
  <2>1. most \in Seq(Line) /\ half \in Seq(Line)
    BY <1>3, <1>5
  <2> QED
    BY <2>1, <1>d
<1>6. /\ file' \in Seq(Line) /\ Len(file') = Len(most) + Len(half)
      /\ \A i \in 1 .. Len(most) : file'[i] = most[i]
      /\ \A i \in 1 .. Len(half) : file'[Len(most) + i] = Bad
  BY <1>3, <1>4, <1>6a
<1>7. \A i \in 1 .. Len(file') : i > Len(file) + n => file'[i] = Bad
  <2> SUFFICES ASSUME NEW i \in 1 .. Len(file'), i > Len(file) + n PROVE file'[i] = Bad
    OBVIOUS
  <2> PICK j : j = i - Len(most)
    OBVIOUS
  <2>1. j \in 1 .. Len(half) /\ i = Len(most) + j
    BY <1>1, <1>3, <1>5, <1>6
  <2> QED
    BY <1>6, <2>1
<1>8. PICK index, last : writer' = [writer EXCEPT ![w] =
                            [index |-> index, seqs |-> [writer[w].seqs EXCEPT ![p] = last]]]
                         /\ last \in Nat
  <2> PICK place : place = IF n < Len(rs) THEN n + 1 ELSE n
    OBVIOUS
  <2>1. place \in 1 .. Len(rs)
    OBVIOUS
  <2>2. rs[place].seq \in Nat
    <3>1. rs[place] \in Log!Entry
      BY <2>1
    <3> QED
      BY <3>1 DEF Log!Entry
  <2> QED
    BY <2>2, Zenon DEF Log!Written
<1>9. /\ writer' = [v \in Writers |-> writer'[v]]
      /\ \A v \in Writers : writer'[v] # Nothing => writer'[v].seqs \in [Projects -> Nat]
  <2> PICK seqs : seqs = [writer[w].seqs EXCEPT ![p] = last]
    OBVIOUS
  <2>1. seqs \in [Projects -> Nat]
    BY <1>8 DEF LogInv
  <2> PICK new : new = [index |-> index, seqs |-> seqs]
    OBVIOUS
  <2>2. writer' = [writer EXCEPT ![w] = new] /\ new.seqs = seqs
    BY <1>8
  <2>3. writer'[w] = new /\ \A v \in Writers \ {w} : writer'[v] = writer[v]
    BY <2>2 DEF LogInv
  <2>4. writer' = [v \in Writers |-> writer'[v]]
    BY <2>2 DEF LogInv
  <2> QED
    BY <2>1, <2>2, <2>3, <2>4 DEF LogInv
<1>10. Len(file') \in {Len(file) + n, Len(file) + n + 1}
  <2>1. Len(file') = Len(file) + n + Len(half)
    BY <1>5, <1>6
  <2>2. Len(file) + n + 0 = Len(file) + n
    BY <1>5
  <2>3. CASE Len(half) = 0
    BY <2>1, <2>2, <2>3, Zenon
  <2>4. CASE Len(half) = 1
    BY <2>1, <2>4, Zenon
  <2> QED
    BY <1>3, <2>3, <2>4
<1>11. \A i \in 1 .. Len(file) : file'[i] = file[i]
  BY <1>5, <1>6
<1>12. \A i \in 1 .. n : file'[Len(file) + i] = rs[i]
  BY <1>5, <1>6
<1> QED
  BY <1>6, <1>7, <1>9, <1>10, <1>11, <1>12

\* An append keeps the order: what was there is below, what is new is in order.
LEMMA WrittenInOrder ==
    ASSUME LogInv, NEW w \in Writers, NEW p \in Projects, NEW a \in Actors, NEW k \in Actions,
           NEW t \in 0 .. 1, writer[w] # Nothing, Log!Readable,
           NEW rs, rs = Log!Records(w, p, a, k, t),
           NEW n \in 0 .. Len(rs), NEW torn \in BOOLEAN, Log!Written(w, p, rs, n, torn),
           answered' = answered \/ (answered' = answered \cup {rs[1]} /\ n = Len(rs))
    PROVE  LogInv'
<1>0. Follows(rs, p)
  BY RecordsFollow
<1>1. /\ rs \in Seq(Log!Entry) /\ Len(rs) \in {1, 2}
      /\ \A i \in 1 .. Len(rs) : rs[i].project = p
      /\ \A m, i \in 1 .. Len(rs) : m < i => rs[m].seq < rs[i].seq
      /\ \A i \in 1 .. Len(rs), m \in DOMAIN file : file[m].project = p => file[m].seq < rs[i].seq
      /\ \E b \in Nat : \A i \in 1 .. Len(rs) : rs[i].seq <= b
  BY <1>0, Zenon DEF Follows
<1>2. Len(rs) > 0 /\ n \in Nat /\ n <= Len(rs) /\ Len(file) \in Nat /\ DOMAIN file = 1 .. Len(file)
  <2>1. Len(rs) \in {1, 2} /\ n \in 0 .. Len(rs)
    BY <1>1
  <2>2. file \in Seq(Line)
    BY DEF LogInv
  <2>3. Len(file) \in Nat /\ DOMAIN file = 1 .. Len(file)
    BY <2>2
  <2>4. ASSUME NEW l \in {1, 2}, n \in 0 .. l PROVE l > 0 /\ n \in Nat /\ n <= l
    BY <2>4
  <2>5. Len(rs) > 0 /\ n \in Nat /\ n <= Len(rs)
    BY <2>1, <2>4, Zenon
  <2> QED
    BY <2>3, <2>5
<1>3. /\ file' \in Seq(Line) /\ Len(file') \in {Len(file) + n, Len(file) + n + 1}
      /\ \A i \in 1 .. Len(file) : file'[i] = file[i]
      /\ \A i \in 1 .. n : file'[Len(file) + i] = rs[i]
      /\ \A i \in 1 .. Len(file') : i > Len(file) + n => file'[i] = Bad
      /\ writer' = [v \in Writers |-> writer'[v]]
      /\ \A v \in Writers : writer'[v] # Nothing => writer'[v].seqs \in [Projects -> Nat]
  BY <1>1, <1>2, WrittenIs
<1>4. ASSUME NEW i \in 1 .. Len(file'), file'[i] # Bad
      PROVE  \/ i \in 1 .. Len(file) /\ file'[i] = file[i]
             \/ \E j \in 1 .. n : i = Len(file) + j /\ file'[i] = rs[j]
  <2>1. CASE i <= Len(file)
    BY <1>2, <1>3, <2>1
  <2>2. CASE i > Len(file)
    <3>1. i <= Len(file) + n
      BY <1>3, <1>4
    <3> PICK j : j = i - Len(file)
      OBVIOUS
    <3>2. j \in 1 .. n /\ i = Len(file) + j
      BY <1>2, <2>2, <3>1
    <3> QED
      BY <1>3, <3>2
  <2> QED
    BY <1>2, <2>1, <2>2
<1>5. DOMAIN file' = 1 .. Len(file')
  BY <1>3
<1>6. Bounded'
  <2>1. PICK b \in Nat : \A i \in DOMAIN file : file[i] # Bad => file[i].seq <= b
    BY DEF LogInv, Bounded
  <2>2. PICK d \in Nat : \A i \in 1 .. Len(rs) : rs[i].seq <= d
    BY <1>1
  <2> PICK e : e = b + d
    OBVIOUS
  <2>3. e \in Nat /\ b <= e /\ d <= e
    BY <2>1, <2>2
  <2>4. ASSUME NEW i \in 1 .. Len(file'), file'[i] # Bad PROVE file'[i].seq <= e
    <3>1. CASE i \in 1 .. Len(file) /\ file'[i] = file[i]
      <4>1. file[i].seq \in Nat
        BY <1>2, <2>4, <3>1, LinesAreNumbered DEF LogInv
      <4> QED
        BY <1>2, <2>1, <2>3, <2>4, <3>1, <4>1
    <3>2. CASE \E j \in 1 .. n : i = Len(file) + j /\ file'[i] = rs[j]
      <4>1. PICK j \in 1 .. n : file'[i] = rs[j]
        BY <3>2
      <4>2. j \in 1 .. Len(rs) /\ rs[j] \in Log!Entry
        BY <1>1, <1>2
      <4>3. rs[j].seq \in Nat
        BY <4>2 DEF Log!Entry
      <4> QED
        BY <2>2, <2>3, <4>1, <4>2, <4>3
    <3> QED
      BY <1>4, <2>4, <3>1, <3>2
  <2> QED
    BY <1>5, <2>3, <2>4 DEF Bounded
<1>7. Log!SequencesIncrease'
  <2> SUFFICES ASSUME NEW m \in 1 .. Len(file'), NEW i \in 1 .. Len(file'), m < i,
                      file'[m] # Bad, file'[i] # Bad, file'[m].project = file'[i].project,
                      file'[i].project \in Projects
               PROVE  file'[m].seq < file'[i].seq
    BY <1>5 DEF Log!SequencesIncrease
  <2>1. CASE i \in 1 .. Len(file) /\ file'[i] = file[i]
    <3>1. m \in 1 .. Len(file) /\ file'[m] = file[m]
      BY <1>2, <1>3, <2>1
    <3> QED
      BY <1>2, <2>1, <3>1 DEF LogInv, Log!SequencesIncrease
  <2>2. CASE \E j \in 1 .. n : i = Len(file) + j /\ file'[i] = rs[j]
    <3>1. PICK j \in 1 .. n : i = Len(file) + j /\ file'[i] = rs[j]
      BY <2>2
    <3>2. j \in 1 .. Len(rs) /\ rs[j].project = p
      BY <1>1, <1>2
    <3>3. CASE m \in 1 .. Len(file) /\ file'[m] = file[m]
      BY <1>1, <1>2, <3>1, <3>2, <3>3
    <3>4. CASE \E l \in 1 .. n : m = Len(file) + l /\ file'[m] = rs[l]
      <4>1. PICK l \in 1 .. n : m = Len(file) + l /\ file'[m] = rs[l]
        BY <3>4
      <4>2. l \in 1 .. Len(rs) /\ l < j
        BY <1>2, <3>1, <4>1
      <4> QED
        BY <1>1, <3>1, <3>2, <4>1, <4>2
    <3> QED
      BY <1>4, <3>3, <3>4
  <2> QED
    BY <1>4, <2>1, <2>2
<1>8. Log!AcceptedIsWritten'
  <2> SUFFICES ASSUME NEW e \in answered' PROVE \E i \in 1 .. Len(file') : file'[i] = e
    BY <1>5 DEF Log!AcceptedIsWritten
  <2>1. CASE e \in answered
    <3>1. PICK i \in DOMAIN file : file[i] = e
      BY <2>1 DEF LogInv, Log!AcceptedIsWritten
    <3>2. i \in 1 .. Len(file')
      BY <1>2, <1>3, <3>1
    <3> QED
      BY <1>2, <1>3, <3>1, <3>2
  <2>2. CASE e = rs[1] /\ n = Len(rs)
    <3> PICK i : i = Len(file) + 1
      OBVIOUS
    <3>1. i \in 1 .. Len(file') /\ 1 \in 1 .. n
      BY <1>2, <1>3, <2>2
    <3>2. file'[i] = rs[1]
      BY <1>3, <3>1
    <3> QED
      BY <2>2, <3>1, <3>2
  <2> QED
    BY <2>1, <2>2
<1> QED
  BY <1>3, <1>6, <1>7, <1>8 DEF LogInv

LEMMA LogInit == Log!Init => LogInv
<1> SUFFICES ASSUME Log!Init PROVE LogInv
  OBVIOUS
<1>1. file \in {<<>>, <<Log!Legacy>>} /\ writer = [w \in Writers |-> Nothing] /\ answered = {}
  BY DEF Log!Init
<1>2. file \in Seq(Line) /\ \A n \in DOMAIN file : n = 1 /\ file[n] = Log!Legacy
  <2>1. CASE file = <<>>
    BY <2>1
  <2>2. CASE file = <<Log!Legacy>>
    <3>1. Log!Legacy \in Line
      BY DEF Line
    <3> QED
      BY <2>2, <3>1
  <2> QED
    BY <1>1, <2>1, <2>2
<1>3. Log!Legacy.seq = 0
  BY DEF Log!Legacy
<1>4. Bounded
  <2>1. \A n \in DOMAIN file : file[n].seq <= 0
    BY <1>2, <1>3
  <2> QED
    BY <2>1 DEF Bounded
<1>5. Log!SequencesIncrease /\ Log!AcceptedIsWritten
  BY <1>1, <1>2 DEF Log!SequencesIncrease, Log!AcceptedIsWritten
<1> QED
  BY <1>1, <1>2, <1>4, <1>5 DEF LogInv

LEMMA LogStep == LogInv /\ [Log!Next]_(Log!vars) => LogInv'
<1> SUFFICES ASSUME LogInv, [Log!Next]_(Log!vars) PROVE LogInv'
  OBVIOUS
<1>1. CASE UNCHANGED Log!vars
  BY <1>1 DEF Log!vars, LogInv, Bounded, Log!SequencesIncrease, Log!AcceptedIsWritten
<1>2. ASSUME NEW w \in Writers, Log!Open(w) PROVE LogInv'
  <2> PICK index, seqs : index = Log!IndexOf(file) /\ seqs = [p \in Projects |-> Log!Highest(p)]
    OBVIOUS
  <2> PICK new : new = [index |-> index, seqs |-> seqs]
    OBVIOUS
  <2>1. writer' = [writer EXCEPT ![w] = new] /\ UNCHANGED <<file, answered>> /\ Log!Readable
    BY <1>2, Zenon DEF Log!Open
  <2>2. \A p \in Projects : Log!Highest(p) \in Nat
    BY <2>1, HighestIsHighest DEF LogInv
  <2>3. new.seqs \in [Projects -> Nat]
    <3>1. seqs \in [Projects -> Nat] /\ new.seqs = seqs
      BY <2>2
    <3> QED
      BY <3>1
  <2>4. /\ writer' = [v \in Writers |-> writer'[v]]
        /\ \A v \in Writers : writer'[v] # Nothing => writer'[v].seqs \in [Projects -> Nat]
    <3>1. writer = [v \in Writers |-> writer[v]]
      BY DEF LogInv
    <3>2. writer'[w] = new /\ \A v \in Writers \ {w} : writer'[v] = writer[v]
      BY <2>1, <3>1
    <3>3. writer' = [v \in Writers |-> writer'[v]]
      BY <2>1, <3>1
    <3> QED
      BY <2>3, <3>2, <3>3 DEF LogInv
  <2> QED
    BY <2>1, <2>4 DEF LogInv, Bounded, Log!SequencesIncrease, Log!AcceptedIsWritten
<1>3. ASSUME NEW w \in Writers, Log!Close(w) PROVE LogInv'
  <2>1. writer' = [writer EXCEPT ![w] = Nothing] /\ UNCHANGED <<file, answered>>
    BY <1>3 DEF Log!Close
  <2>2. /\ writer' = [v \in Writers |-> writer'[v]]
        /\ \A v \in Writers : writer'[v] # Nothing => writer'[v].seqs \in [Projects -> Nat]
    BY <2>1 DEF LogInv
  <2> QED
    BY <2>1, <2>2 DEF LogInv, Bounded, Log!SequencesIncrease, Log!AcceptedIsWritten
<1>4. ASSUME NEW w \in Writers, NEW p \in Projects, NEW a \in Actors, NEW k \in Actions, NEW t \in 0 .. 1,
             Log!AppendEntry(w, p, a, k, t)
      PROVE  LogInv'
  <2>a. PICK rs : rs = Log!Records(w, p, a, k, t)
    OBVIOUS
  <2>1. writer[w] # Nothing /\ Log!Readable
    BY <1>4, Zenon DEF Log!AppendEntry
  <2>2. PICK n \in 0 .. Len(rs), torn \in BOOLEAN :
           /\ Log!Written(w, p, rs, n, torn)
           /\ answered' = answered \/ (answered' = answered \cup {rs[1]} /\ n = Len(rs))
    <3>1. rs \in Seq(Log!Entry)
      BY <2>a, <2>1, RecordsFollow DEF Follows
    <3>2. Len(rs) \in 0 .. Len(rs)
      BY <3>1
    <3> QED
      BY <1>4, <2>a, <3>2, Zenon DEF Log!AppendEntry
  <2> QED
    BY <2>a, <2>1, <2>2, WrittenInOrder
<1>5. CASE Log!AppendOfAuth
  <2>1. file' = Append(file, Bad) /\ UNCHANGED <<writer, answered>>
    BY <1>5 DEF Log!AppendOfAuth
  <2>2. file \in Seq(Line) /\ Bad \in Line /\ Len(file) \in Nat
    BY DEF LogInv, Line
  <2>3. /\ file' \in Seq(Line) /\ DOMAIN file' = 1 .. Len(file) + 1 /\ DOMAIN file = 1 .. Len(file)
        /\ \A n \in 1 .. Len(file) : file'[n] = file[n]
        /\ file'[Len(file) + 1] = Bad
    BY <2>1, <2>2
  <2>4. Bounded' /\ Log!SequencesIncrease' /\ Log!AcceptedIsWritten'
    BY <2>1, <2>2, <2>3 DEF LogInv, Bounded, Log!SequencesIncrease, Log!AcceptedIsWritten
  <2> QED
    BY <2>1, <2>3, <2>4 DEF LogInv
<1> QED
  BY <1>1, <1>2, <1>3, <1>4, <1>5 DEF Log!Next

\* The entries of a project are numbered upwards in the order of the file, whoever wrote them,
\* whichever writes failed and whatever restarts made of the counters, and what was accepted is
\* in the file (audit/writer.go, Append and refreshSequencesFromFileLocked).
THEOREM EntriesAreInOrder == Log!Spec => [](Log!SequencesIncrease /\ Log!AcceptedIsWritten)
<1>1. LogInv => Log!SequencesIncrease /\ Log!AcceptedIsWritten
  BY DEF LogInv
<1> QED
  BY <1>1, LogInit, LogStep, PTL DEF Log!Spec

-----------------------------------------------------------------------------
(* CloneSync.  Who fetches holds the lock of its project, so one does.     *)
(* What a trigger is about is on the remote, and stays so: a fetch cannot  *)
(* miss it.  And as long as no event was lost, what the overlay would say  *)
(* after the events still in the queue is what the server has not pushed.  *)

CONSTANTS Commits, HistoryLimit, MaxOrigin
VARIABLES ahead, queue, seq, lost, clone, holder, overlay, actor
Clone == INSTANCE CloneSync

Whys == {"", "push", "origin", "poll", "refresh", "reconnect"}
Announced == [num : Nat, type : {"commit", "push", "origin"}, project : Projects, commits : SUBSET Commits, ok : BOOLEAN, want : Nat]
Fetched == [kind : Whys, ok : BOOLEAN, want : Nat, has : Nat]
Mirrored == [unpushed : SUBSET Commits, lastSeq : Nat, history : Seq(Fetched)]
Fetcher == [pc : {"idle", "lock", "fetch", "record", "returned"}, todo : Seq(Projects), kind : Whys, num : Nat, want : Nat, ok : BOOLEAN]

CloneTypes ==
    /\ origin \in [Projects -> Nat] /\ clone \in [Projects -> Nat]
    /\ ahead \in [Projects -> SUBSET Commits]
    /\ queue \in Seq(Announced) /\ seq \in Nat
    /\ holder \in [Projects -> Clone!Actors \cup {Nothing}]
    /\ overlay \in [Projects -> Mirrored]
    /\ actor \in [Clone!Actors -> Fetcher]

\* An actor with something to fetch: what it wants is on the remote o, it holds the lock of h
\* that it needs, and what it has fetched is in the clone c.
Going(r, a, o, c, h) ==
    r.pc \in {"lock", "fetch", "record"} =>
        /\ r.todo # << >> /\ r.want <= o[Head(r.todo)] /\ (Len(r.todo) > 1 => r.want = 0)
        /\ r.pc # "lock" => h[Head(r.todo)] = a
        /\ r.pc = "record" /\ r.ok => r.want <= c[Head(r.todo)]
Fetchers == \A a \in Clone!Actors : Going(actor[a], a, origin, clone, holder)
\* What was announced is on the remote, and a clone has nothing that is not.
Behind == /\ \A p \in Projects : clone[p] <= origin[p]
          /\ \A i \in DOMAIN queue : queue[i].want <= origin[queue[i].project]
\* h says what the overlay of p says after each event of the queue, up to what is true.
Replay(h, q, p, o, t) ==
    /\ h \in [0 .. Len(q) -> SUBSET Commits] /\ h[0] = o /\ h[Len(q)] = t
    /\ \A i \in 1 .. Len(q) : h[i] = IF q[i].project = p THEN Clone!UnpushedAfter(q[i], h[i - 1]) ELSE h[i - 1]
Replays(q, p, o, t) == \E h : Replay(h, q, p, o, t)
Told == ~lost => \A p \in Projects : Replays(queue, p, overlay[p].unpushed, ahead[p])
CloneInv == CloneTypes /\ Fetchers /\ Behind /\ Clone!RecordedFetchHasIt /\ Told

\* An actor that waits: the state of Run before its first event, and of a caller.
LEMMA IdleFetcher ==
    /\ Clone!Idle \in Fetcher /\ Clone!Idle.pc = "idle"
    /\ [Clone!Idle EXCEPT !.pc = "returned"] \in Fetcher
    /\ [Clone!Idle EXCEPT !.pc = "returned"].pc = "returned"
    /\ [Clone!Idle EXCEPT !.pc = "idle"] \in Fetcher
    /\ [Clone!Idle EXCEPT !.pc = "idle"].pc = "idle"
<1>1. 0 \in Nat /\ FALSE \in BOOLEAN /\ << >> \in Seq(Projects)
  OBVIOUS
<1>2. Clone!Idle \in Fetcher
  BY <1>1, Zenon DEF Clone!Idle, Fetcher, Whys
<1>3. Clone!Idle.pc = "idle"
  BY Zenon DEF Clone!Idle
<1> QED
  BY <1>2, <1>3 DEF Fetcher

LEMMA WhysAre == {"push", "origin", "poll", "refresh", "reconnect"} \subseteq Whys
BY Zenon DEF Whys

\* A poll goes through some project.
LEMMA PollHasProjects ==
    ASSUME Clone!SyncConstants
    PROVE  Clone!SetToSeq(Projects) \in Seq(Projects) /\ Clone!SetToSeq(Projects) # << >>
<1>0. IsFiniteSet(Projects) /\ Projects # {}
  BY DEF Clone!SyncConstants, Clone!IsFiniteSet, IsFiniteSet
<1> PICK n : n = Cardinality(Projects)
  OBVIOUS
<1>1. n \in Nat /\ ExistsBijection(1 .. n, Projects)
  BY <1>0, FS_CardinalityType
<1>2. PICK f \in [1 .. n -> Projects] : IsInjective(f)
  BY <1>1 DEF ExistsBijection, Bijection, Injection, IsInjective
<1>3. n # 0
  BY <1>0, <1>1 DEF ExistsBijection, Bijection, Surjection
<1>4. Clone!Cardinality(Projects) = n
  BY DEF Clone!Cardinality, Cardinality
<1>5. Clone!SetToSeq(Projects) \in [1 .. n -> Projects]
  BY <1>2, <1>4 DEF Clone!SetToSeq, Clone!IsInjective, IsInjective
<1> QED
  BY <1>1, <1>3, <1>5

\* The remote and the clones only move on, and nobody loses a lock that it holds: who has
\* something to fetch goes on.
LEMMA GoingOnFetching ==
    ASSUME NEW r \in Fetcher, NEW a, NEW o \in [Projects -> Nat], NEW c \in [Projects -> Nat], NEW h,
           NEW oo \in [Projects -> Nat], NEW cc \in [Projects -> Nat], NEW hh,
           \A p \in Projects : o[p] <= oo[p] /\ c[p] <= cc[p] /\ (h[p] = a => hh[p] = a),
           Going(r, a, o, c, h)
    PROVE  Going(r, a, oo, cc, hh)
<1> SUFFICES ASSUME r.pc \in {"lock", "fetch", "record"} PROVE Going(r, a, oo, cc, hh)
  BY DEF Going
<1>1. r.todo \in Seq(Projects) /\ r.todo # << >> /\ r.want \in Nat
  BY DEF Going, Fetcher
<1> PICK p \in Projects : p = Head(r.todo)
  BY <1>1
<1>2. o[p] \in Nat /\ oo[p] \in Nat /\ c[p] \in Nat /\ cc[p] \in Nat
  OBVIOUS
<1>3. /\ r.want <= o[p] /\ (Len(r.todo) > 1 => r.want = 0)
      /\ r.pc # "lock" => h[p] = a
      /\ r.pc = "record" /\ r.ok => r.want <= c[p]
  BY DEF Going
<1>4. o[p] <= oo[p] /\ c[p] <= cc[p] /\ (h[p] = a => hh[p] = a)
  OBVIOUS
<1>0. \A i, j, k \in Nat : i <= j /\ j <= k => i <= k
  OBVIOUS
<1>5. r.want <= oo[p] /\ (r.pc # "lock" => hh[p] = a)
  BY <1>0, <1>1, <1>2, <1>3, <1>4, Zenon
<1>6. ASSUME r.pc = "record", r.ok PROVE r.want <= cc[p]
  <2>1. r.want <= c[p]
    BY <1>3, <1>6, Zenon
  <2> QED
    BY <1>0, <1>1, <1>2, <1>4, <2>1, Zenon
<1> QED
  BY <1>1, <1>3, <1>5, <1>6, Zenon DEF Going

\* An event that says what happened can be sent after the others (eventbus, Publish).
LEMMA SendingReplays ==
    ASSUME NEW q \in Seq(Announced), NEW e \in Announced, NEW p \in Projects, NEW o \in SUBSET Commits,
           NEW t \in SUBSET Commits, NEW tt \in SUBSET Commits, Replays(q, p, o, t),
           tt = IF e.project = p THEN Clone!UnpushedAfter(e, t) ELSE t
    PROVE  Replays(Append(q, e), p, o, tt)
<1>h. PICK h : Replay(h, q, p, o, t)
  BY DEF Replays
<1> PICK n \in Nat : n = Len(q)
  OBVIOUS
<1>0. Append(q, e) \in Seq(Announced)
  OBVIOUS
<1>q. PICK qq \in Seq(Announced) : qq = Append(q, e)
  BY <1>0, Zenon
<1>1. Len(qq) = n + 1 /\ qq[n + 1] = e /\ \A i \in 1 .. n : qq[i] = q[i]
  BY <1>q
<1>2. /\ h \in [0 .. n -> SUBSET Commits] /\ h[0] = o /\ h[n] = t
      /\ \A i \in 1 .. n : h[i] = IF q[i].project = p THEN Clone!UnpushedAfter(q[i], h[i - 1]) ELSE h[i - 1]
  BY <1>h DEF Replay
<1> DEFINE g == [i \in 0 .. n + 1 |-> IF i = n + 1 THEN tt ELSE h[i]]
<1>3. g \in [0 .. n + 1 -> SUBSET Commits] /\ g[n + 1] = tt /\ \A i \in 0 .. n : g[i] = h[i]
  BY <1>2
<1>4. g[0] = o /\ g[n] = t
  BY <1>2, <1>3
<1> HIDE DEF g
<1>5. ASSUME NEW i \in 1 .. n + 1
      PROVE  g[i] = IF qq[i].project = p THEN Clone!UnpushedAfter(qq[i], g[i - 1]) ELSE g[i - 1]
  <2>1. CASE i = n + 1
    <3>1. i - 1 = n /\ qq[i] = e
      BY <1>1, <2>1
    <3> QED
      BY <1>3, <1>4, <2>1, <3>1, Zenon
  <2>2. CASE i # n + 1
    <3>1. i \in 1 .. n /\ i \in 0 .. n /\ i - 1 \in 0 .. n
      BY <2>2
    <3>2. qq[i] = q[i] /\ g[i] = h[i] /\ g[i - 1] = h[i - 1]
      BY <1>1, <1>3, <3>1
    <3> QED
      BY <1>2, <3>1, <3>2, Zenon
  <2> QED
    BY <2>1, <2>2
<1>6. Replay(g, qq, p, o, tt)
  BY <1>1, <1>3, <1>4, <1>5, Zenon DEF Replay
<1> QED
  BY <1>q, <1>6 DEF Replays

\* The overlay that has heard the first event is where the others go on from.
LEMMA HearingReplays ==
    ASSUME NEW q \in Seq(Announced), q # << >>, NEW p \in Projects, NEW o \in SUBSET Commits,
           NEW t \in SUBSET Commits, NEW oo, Replays(q, p, o, t),
           oo = IF Head(q).project = p THEN Clone!UnpushedAfter(Head(q), o) ELSE o
    PROVE  Replays(Tail(q), p, oo, t)
<1>h. PICK h : Replay(h, q, p, o, t)
  BY DEF Replays
<1> PICK n : n = Len(q) - 1
  OBVIOUS
<1>n. n \in Nat /\ n + 1 = Len(q)
  <2>1. Len(q) \in Nat /\ Len(q) # 0
    OBVIOUS
  <2> QED
    BY <2>1
<1>0. Tail(q) \in Seq(Announced)
  OBVIOUS
<1>q. PICK qq \in Seq(Announced) : qq = Tail(q)
  BY <1>0, Zenon
<1>1. Len(qq) = n /\ Head(q) = q[1] /\ \A i \in 1 .. n : qq[i] = q[i + 1]
  BY <1>n, <1>q
<1>2. /\ h \in [0 .. n + 1 -> SUBSET Commits] /\ h[0] = o /\ h[n + 1] = t
      /\ \A i \in 1 .. n + 1 : h[i] = IF q[i].project = p THEN Clone!UnpushedAfter(q[i], h[i - 1]) ELSE h[i - 1]
  BY <1>h, <1>n DEF Replay
<1>3. h[1] = oo
  <2>1. 1 \in 1 .. n + 1 /\ 1 - 1 = 0
    OBVIOUS
  <2>2. h[1] = IF q[1].project = p THEN Clone!UnpushedAfter(q[1], h[0]) ELSE h[0]
    BY <1>2, <2>1
  <2> QED
    BY <1>1, <1>2, <2>2, Zenon
<1> DEFINE g == [i \in 0 .. n |-> h[i + 1]]
<1>4. g \in [0 .. n -> SUBSET Commits] /\ \A i \in 0 .. n : g[i] = h[i + 1]
  <2>1. \A i \in 0 .. n : i + 1 \in 0 .. n + 1
    OBVIOUS
  <2> QED
    BY <1>2, <2>1
<1>5. g[0] = oo /\ g[n] = t
  BY <1>2, <1>3, <1>4
<1> HIDE DEF g
<1>6. ASSUME NEW i \in 1 .. n
      PROVE  g[i] = IF qq[i].project = p THEN Clone!UnpushedAfter(qq[i], g[i - 1]) ELSE g[i - 1]
  <2>1. i + 1 \in 1 .. n + 1 /\ (i + 1) - 1 = i /\ (i - 1) + 1 = i /\ i \in 0 .. n /\ i - 1 \in 0 .. n
    OBVIOUS
  <2>2. g[i] = h[i + 1] /\ g[i - 1] = h[i] /\ qq[i] = q[i + 1]
    BY <1>1, <1>4, <2>1
  <2>3. h[i + 1] = IF q[i + 1].project = p THEN Clone!UnpushedAfter(q[i + 1], h[i]) ELSE h[i]
    BY <1>2, <2>1
  <2> QED
    BY <2>2, <2>3, Zenon
<1>7. Replay(g, qq, p, oo, t)
  BY <1>1, <1>4, <1>5, <1>6, Zenon DEF Replay
<1> QED
  BY <1>q, <1>7 DEF Replays

\* Whatever is announced about the remote or the server is so by then.
LEMMA SendKeepsClones ==
    ASSUME CloneInv, NEW e \in Announced, Clone!Send(e),
           origin' \in [Projects -> Nat], ahead' \in [Projects -> SUBSET Commits],
           \A p \in Projects : origin[p] <= origin'[p],
           e.want <= origin'[e.project],
           \A p \in Projects : ahead'[p] = IF e.project = p THEN Clone!UnpushedAfter(e, ahead[p]) ELSE ahead[p]
    PROVE  CloneInv'
<1>1. /\ seq' = seq + 1 /\ queue' = Append(queue, e)
      /\ UNCHANGED <<lost, clone, holder, overlay, actor>>
  BY Zenon DEF Clone!Send
<1>2. CloneTypes'
  BY <1>1 DEF CloneInv, CloneTypes
<1>3. Fetchers'
  <2> SUFFICES ASSUME NEW a \in Clone!Actors PROVE Going(actor[a], a, origin', clone, holder)
    BY <1>1, Zenon DEF Fetchers, Clone!Actors, Clone!Run
  <2>1. actor[a] \in Fetcher /\ Going(actor[a], a, origin, clone, holder)
    BY DEF CloneInv, CloneTypes, Fetchers
  <2>2. /\ origin \in [Projects -> Nat] /\ clone \in [Projects -> Nat]
        /\ \A p \in Projects : clone[p] <= clone[p]
    BY DEF CloneInv, CloneTypes
  <2> QED
    BY <2>1, <2>2, GoingOnFetching
<1>4. Behind'
  <2>1. \A p \in Projects : /\ clone[p] \in Nat /\ origin[p] \in Nat /\ origin'[p] \in Nat
                            /\ clone[p] <= origin[p] /\ origin[p] <= origin'[p]
    BY DEF CloneInv, CloneTypes, Behind
  <2>2. \A p \in Projects : clone'[p] <= origin'[p]
    BY <1>1, <2>1
  <2>3. ASSUME NEW i \in DOMAIN queue' PROVE queue'[i].want <= origin'[queue'[i].project]
    <3>1. queue \in Seq(Announced)
      BY DEF CloneInv, CloneTypes
    <3>2. CASE i \in DOMAIN queue
      <4>1. queue'[i] = queue[i] /\ queue[i] \in Announced
        BY <1>1, <3>1, <3>2
      <4>2. queue[i].want <= origin[queue[i].project]
        BY <3>2 DEF CloneInv, Behind
      <4>3. queue[i].want \in Nat /\ queue[i].project \in Projects
        BY <4>1 DEF Announced
      <4> QED
        BY <2>1, <4>1, <4>2, <4>3
    <3>3. CASE i \notin DOMAIN queue
      <4>1. queue'[i] = e
        BY <1>1, <3>1, <3>3
      <4> QED
        BY <4>1
    <3> QED
      BY <3>2, <3>3
  <2> QED
    BY <2>2, <2>3 DEF Behind
<1>5. Clone!RecordedFetchHasIt'
  BY <1>1 DEF CloneInv, Clone!RecordedFetchHasIt
<1>6. Told'
  <2> SUFFICES ASSUME ~lost', NEW p \in Projects
               PROVE  Replays(queue', p, overlay'[p].unpushed, ahead'[p])
    BY DEF Told
  <2>1. Replays(queue, p, overlay[p].unpushed, ahead[p])
    BY <1>1 DEF CloneInv, Told
  <2>2. /\ queue \in Seq(Announced) /\ overlay[p].unpushed \in SUBSET Commits /\ ahead[p] \in SUBSET Commits
        /\ ahead'[p] \in SUBSET Commits /\ overlay'[p].unpushed = overlay[p].unpushed
    BY <1>1 DEF CloneInv, CloneTypes, Mirrored
  <2>3. ahead'[p] = IF e.project = p THEN Clone!UnpushedAfter(e, ahead[p]) ELSE ahead[p]
    OBVIOUS
  <2> QED
    BY <1>1, <2>1, <2>2, <2>3, SendingReplays
<1> QED
  BY <1>2, <1>3, <1>4, <1>5, <1>6 DEF CloneInv

\* The watcher of the daemon: commits, pushes, and what others push.
LEMMA WatcherKeepsClones ==
    ASSUME CloneInv, NEW p \in Projects,
           \/ \E c \in Commits : Clone!VPSCommit(p, c)
           \/ \E S \in SUBSET ahead[p] : Clone!Push(p, S) \/ Clone!PushFails(p, S)
           \/ Clone!OriginAdvances(p)
    PROVE  CloneInv'
<1>1. /\ origin \in [Projects -> Nat] /\ ahead \in [Projects -> SUBSET Commits] /\ seq \in Nat
      /\ origin[p] \in Nat /\ ahead[p] \in SUBSET Commits /\ 0 <= origin[p]
  BY DEF CloneInv, CloneTypes
<1>2. ASSUME NEW e \in Announced, Clone!Send(e), UNCHANGED <<origin, ahead>>, e.want <= origin[e.project],
             \A o : Clone!UnpushedAfter(e, o) = o
      PROVE  CloneInv'
  BY <1>1, <1>2, SendKeepsClones
<1>3. ASSUME NEW c \in Commits, Clone!VPSCommit(p, c) PROVE CloneInv'
  <2> PICK e : e = Clone!Event("commit", p, {c}, TRUE, 0)
    OBVIOUS
  <2>1. Clone!Send(e) /\ ahead' = [ahead EXCEPT ![p] = @ \cup {c}] /\ origin' = origin
    BY <1>3 DEF Clone!VPSCommit
  <2>2. e \in Announced /\ e.project = p /\ e.want = 0 /\ e.type = "commit" /\ e.commits = {c}
    BY <1>1 DEF Clone!Event, Announced
  <2>3. \A o : Clone!UnpushedAfter(e, o) = o \cup {c}
    BY <2>2 DEF Clone!UnpushedAfter
  <2>4. \A q \in Projects : origin[q] <= origin'[q]
    BY <1>1, <2>1
  <2>5. ahead' \in [Projects -> SUBSET Commits]
    BY <1>1, <2>1
  <2>6. \A q \in Projects : ahead'[q] = IF e.project = q THEN Clone!UnpushedAfter(e, ahead[q]) ELSE ahead[q]
    BY <1>1, <2>1, <2>2, <2>3
  <2> QED
    BY <1>1, <2>1, <2>2, <2>4, <2>5, <2>6, SendKeepsClones
<1>4. ASSUME NEW S \in SUBSET ahead[p], Clone!Push(p, S) PROVE CloneInv'
  <2>1. PICK named \in {S} \cup (IF S = ahead[p] THEN {{}} ELSE {}) :
           Clone!Send(Clone!Event("push", p, named, TRUE, origin[p] + 1))
    BY <1>4, Zenon DEF Clone!Push
  <2>2. /\ S # {} /\ origin' = [origin EXCEPT ![p] = @ + 1]
        /\ ahead' = [ahead EXCEPT ![p] = @ \ S]
    BY <1>4, Zenon DEF Clone!Push
  <2> PICK e : e = Clone!Event("push", p, named, TRUE, origin[p] + 1)
    OBVIOUS
  <2>3. named \in SUBSET Commits /\ origin[p] + 1 \in Nat
    BY <1>1
  <2>4. e \in Announced /\ e.project = p /\ e.want = origin[p] + 1 /\ e.type = "push" /\ e.commits = named /\ e.ok
    BY <1>1, <2>3 DEF Clone!Event, Announced
  <2>5. Clone!UnpushedAfter(e, ahead[p]) = ahead[p] \ S
    <3>1. Clone!UnpushedAfter(e, ahead[p]) = IF named = {} THEN {} ELSE ahead[p] \ named
      BY <2>4 DEF Clone!UnpushedAfter
    <3>2. CASE named = {}
      BY <2>2, <3>1, <3>2
    <3>3. CASE named # {}
      BY <3>1, <3>3
    <3> QED
      BY <3>2, <3>3
  <2>6. origin' \in [Projects -> Nat] /\ e.want <= origin'[p] /\ \A q \in Projects : origin[q] <= origin'[q]
    <3>1. origin'[p] = origin[p] + 1 /\ \A q \in Projects \ {p} : origin'[q] = origin[q]
      BY <1>1, <2>2
    <3>2. \A q \in Projects : origin[q] \in Nat
      BY <1>1
    <3>3. origin' \in [Projects -> Nat]
      BY <1>1, <2>2
    <3>4. e.want <= origin'[p]
      <4>1. e.want = origin'[p]
        BY <2>4, <3>1
      <4>2. origin'[p] \in Nat
        BY <3>3
      <4>3. \A k \in Nat : k <= k
        OBVIOUS
      <4> QED
        BY <4>1, <4>2, <4>3, Zenon
    <3>5. \A q \in Projects : origin[q] <= origin'[q]
      BY <3>1, <3>2
    <3> QED
      BY <3>3, <3>4, <3>5
  <2>7. ahead' \in [Projects -> SUBSET Commits]
    BY <1>1, <2>2
  <2>8. \A q \in Projects : ahead'[q] = IF e.project = q THEN Clone!UnpushedAfter(e, ahead[q]) ELSE ahead[q]
    BY <1>1, <2>2, <2>4, <2>5
  <2> QED
    BY <2>1, <2>4, <2>6, <2>7, <2>8, SendKeepsClones
<1>5. ASSUME NEW S \in SUBSET ahead[p], Clone!PushFails(p, S) PROVE CloneInv'
  <2> PICK e : e = Clone!Event("push", p, S, FALSE, 0)
    OBVIOUS
  <2>1. Clone!Send(e) /\ UNCHANGED <<origin, ahead>>
    BY <1>5 DEF Clone!PushFails, Clone!outside
  <2>2. e \in Announced /\ e.project = p /\ e.want = 0 /\ e.type = "push" /\ e.ok = FALSE
    BY <1>1 DEF Clone!Event, Announced
  <2>3. \A o : Clone!UnpushedAfter(e, o) = o
    BY <2>2 DEF Clone!UnpushedAfter
  <2> QED
    BY <1>1, <1>2, <2>1, <2>2, <2>3
<1>6. CASE Clone!OriginAdvances(p)
  <2> PICK e : e = Clone!Event("origin", p, {}, TRUE, origin[p] + 1)
    OBVIOUS
  <2>1. Clone!Send(e) /\ ahead' = ahead /\ origin' = [origin EXCEPT ![p] = @ + 1]
    BY <1>6 DEF Clone!OriginAdvances
  <2>2. origin[p] + 1 \in Nat /\ {} \in SUBSET Commits
    BY <1>1
  <2>3. e \in Announced /\ e.project = p /\ e.want = origin[p] + 1 /\ e.type = "origin"
    BY <1>1, <2>2 DEF Clone!Event, Announced
  <2>4. \A o : Clone!UnpushedAfter(e, o) = o
    BY <2>3 DEF Clone!UnpushedAfter
  <2>5. origin' \in [Projects -> Nat] /\ e.want <= origin'[p] /\ \A q \in Projects : origin[q] <= origin'[q]
    <3>1. origin'[p] = origin[p] + 1 /\ \A q \in Projects \ {p} : origin'[q] = origin[q]
      BY <1>1, <2>1
    <3>2. \A q \in Projects : origin[q] \in Nat
      BY <1>1
    <3>3. origin' \in [Projects -> Nat]
      BY <1>1, <2>1
    <3>4. e.want <= origin'[p]
      <4>1. e.want = origin'[p]
        BY <2>3, <3>1
      <4>2. origin'[p] \in Nat
        BY <3>3
      <4>3. \A k \in Nat : k <= k
        OBVIOUS
      <4> QED
        BY <4>1, <4>2, <4>3, Zenon
    <3>5. \A q \in Projects : origin[q] <= origin'[q]
      BY <3>1, <3>2
    <3> QED
      BY <3>3, <3>4, <3>5
  <2> QED
    BY <1>1, <2>1, <2>3, <2>4, <2>5, SendKeepsClones
<1> QED
  BY <1>3, <1>4, <1>5, <1>6

\* One actor moves, and what it wants is there; of the clones and the locks no other actor
\* loses anything.
LEMMA ActorKeepsClones ==
    ASSUME CloneInv, NEW a \in Clone!Actors, NEW r \in Fetcher, actor' = [actor EXCEPT ![a] = r],
           origin' = origin,
           clone' \in [Projects -> Nat], holder' \in [Projects -> Clone!Actors \cup {Nothing}],
           \A p \in Projects : clone[p] <= clone'[p] /\ clone'[p] <= origin[p],
           \A p \in Projects : \A b \in Clone!Actors : b # a /\ holder[p] = b => holder'[p] = b,
           Going(r, a, origin, clone', holder')
    PROVE  actor' \in [Clone!Actors -> Fetcher] /\ Fetchers' /\ \A p \in Projects : clone'[p] <= origin'[p]
<1>1. actor \in [Clone!Actors -> Fetcher] /\ origin \in [Projects -> Nat] /\ clone \in [Projects -> Nat]
  BY DEF CloneInv, CloneTypes
<1>2. actor'[a] = r /\ \A b \in Clone!Actors \ {a} : actor'[b] = actor[b]
  BY <1>1
<1>3. ASSUME NEW b \in Clone!Actors PROVE Going(actor'[b], b, origin, clone', holder')
  <2>1. CASE b = a
    BY <1>2, <2>1
  <2>2. CASE b # a
    <3>1. actor[b] \in Fetcher /\ Going(actor[b], b, origin, clone, holder) /\ actor'[b] = actor[b]
      BY <1>1, <1>2, <2>2 DEF CloneInv, Fetchers
    <3>2. \A p \in Projects : origin[p] <= origin[p] /\ clone[p] <= clone'[p] /\ (holder[p] = b => holder'[p] = b)
      BY <1>1, <2>2
    <3> QED
      BY <1>1, <3>1, <3>2, GoingOnFetching
  <2> QED
    BY <2>1, <2>2
<1>4. Fetchers'
  BY <1>3, Zenon DEF Fetchers, Clone!Actors, Clone!Run
<1>5. actor' \in [Clone!Actors -> Fetcher]
  BY <1>1
<1> QED
  BY <1>4, <1>5

\* What does not touch the queue, the overlay and the server keeps what was told and recorded.
LEMMA RestOfClones ==
    ASSUME CloneInv, UNCHANGED <<origin, ahead, queue, seq, lost, overlay>>,
           clone' \in [Projects -> Nat], holder' \in [Projects -> Clone!Actors \cup {Nothing}],
           actor' \in [Clone!Actors -> Fetcher], Fetchers', \A p \in Projects : clone'[p] <= origin'[p]
    PROVE  CloneInv'
<1>1. CloneTypes'
  BY DEF CloneInv, CloneTypes
<1>2. Behind' /\ Clone!RecordedFetchHasIt' /\ Told'
  BY DEF CloneInv, Behind, Clone!RecordedFetchHasIt, Told
<1> QED
  BY <1>1, <1>2 DEF CloneInv

\* A call or a poll begins; it wants what there is when its fetch starts.
LEMMA BeginningKeepsClones ==
    ASSUME Clone!SyncConstants, CloneInv
    PROVE  /\ \A c \in Callers, p \in Projects : Clone!Refresh(c, p) => CloneInv'
           /\ Clone!Tick => CloneInv'
<1>1. ASSUME NEW a \in Clone!Actors, NEW why \in Whys, NEW todo \in Seq(Projects), todo # << >>, NEW num \in Nat,
             Clone!Begin(a, why, todo, num, 0), UNCHANGED <<origin, ahead, queue, seq, lost, clone, holder, overlay>>
      PROVE  CloneInv'
  <2> PICK r : r = [pc |-> "lock", todo |-> todo, kind |-> why, num |-> num, want |-> 0, ok |-> FALSE]
    OBVIOUS
  <2>1. actor' = [actor EXCEPT ![a] = r]
    BY <1>1, Zenon DEF Clone!Begin
  <2>2. /\ clone' \in [Projects -> Nat] /\ holder' \in [Projects -> Clone!Actors \cup {Nothing}]
        /\ clone' = clone /\ holder' = holder /\ origin' = origin /\ origin \in [Projects -> Nat]
        /\ clone \in [Projects -> Nat] /\ \A p \in Projects : clone[p] <= origin[p]
    BY <1>1 DEF CloneInv, CloneTypes, Behind
  <2>3. r \in Fetcher
    BY DEF Fetcher
  <2>4. Going(r, a, origin, clone', holder')
    <3>1. Head(todo) \in Projects
      BY <1>1
    <3>2. 0 <= origin[Head(todo)]
      BY <2>2, <3>1
    <3> QED
      BY <1>1, <3>2 DEF Going
  <2>5. /\ \A p \in Projects : clone[p] <= clone'[p] /\ clone'[p] <= origin[p]
        /\ \A p \in Projects : \A b \in Clone!Actors : b # a /\ holder[p] = b => holder'[p] = b
    BY <2>2
  <2>6. actor' \in [Clone!Actors -> Fetcher] /\ Fetchers' /\ \A p \in Projects : clone'[p] <= origin'[p]
    BY <2>1, <2>2, <2>3, <2>4, <2>5, ActorKeepsClones
  <2> QED
    BY <1>1, <2>2, <2>6, RestOfClones
<1>2. ASSUME NEW c \in Callers, NEW p \in Projects, Clone!Refresh(c, p) PROVE CloneInv'
  <2>1. PICK num \in {0, seq} : Clone!Begin(c, IF num = 0 THEN "refresh" ELSE "reconnect", <<p>>, num, 0)
    BY <1>2, Zenon DEF Clone!Refresh
  <2>2. UNCHANGED <<origin, ahead, queue, seq, lost, clone, holder, overlay>>
    BY <1>2, Zenon DEF Clone!Refresh, Clone!outside, Clone!feed
  <2>3. PICK why \in Whys : why = IF num = 0 THEN "refresh" ELSE "reconnect"
    BY WhysAre
  <2>4. num \in Nat
    BY DEF CloneInv, CloneTypes
  <2>5. c \in Clone!Actors /\ <<p>> \in Seq(Projects) /\ <<p>> # << >>
    BY DEF Clone!Actors
  <2> QED
    BY <1>1, <2>1, <2>2, <2>3, <2>4, <2>5
<1>3. CASE Clone!Tick
  <2>1. Clone!Begin(Clone!Run, "poll", Clone!SetToSeq(Projects), 0, 0)
    BY <1>3, Zenon DEF Clone!Tick
  <2>2. UNCHANGED <<origin, ahead, queue, seq, lost, clone, holder, overlay>>
    BY <1>3, Zenon DEF Clone!Tick, Clone!outside, Clone!feed
  <2>3. Clone!Run \in Clone!Actors /\ "poll" \in Whys /\ 0 \in Nat
    BY WhysAre DEF Clone!Actors
  <2> QED
    BY <1>1, <2>1, <2>2, <2>3, PollHasProjects
<1> QED
  BY <1>2, <1>3

\* The lock, git, and its failure.
LEMMA FetchingKeepsClones ==
    ASSUME Clone!SyncConstants, CloneInv, NEW a \in Clone!Actors,
           Clone!Lock(a) \/ Clone!GitFetch(a) \/ Clone!FetchFails(a)
    PROVE  CloneInv'
<1> PICK old : old = actor[a]
  OBVIOUS
<1> PICK p : p = Clone!Of(a)
  OBVIOUS
<1>1. /\ old \in Fetcher /\ Going(old, a, origin, clone, holder)
      /\ origin \in [Projects -> Nat] /\ clone \in [Projects -> Nat]
      /\ holder \in [Projects -> Clone!Actors \cup {Nothing}]
      /\ \A q \in Projects : clone[q] <= origin[q]
  BY DEF CloneInv, CloneTypes, Fetchers, Behind
<1>2. old.pc \in {"lock", "fetch"} /\ UNCHANGED <<origin, ahead, queue, seq, lost, overlay>>
  BY Zenon DEF Clone!Lock, Clone!GitFetch, Clone!FetchFails, Clone!outside, Clone!feed
<1>3. old.todo \in Seq(Projects) /\ old.todo # << >> /\ old.want \in Nat /\ p = Head(old.todo)
  BY <1>1, <1>2 DEF Going, Fetcher, Clone!Of
<1>4. p \in Projects
  BY <1>3
<1>5. /\ old.want <= origin[p] /\ (Len(old.todo) > 1 => old.want = 0)
      /\ old.pc # "lock" => holder[p] = a
  BY <1>1, <1>2, <1>3, Zenon DEF Going
<1>6. \A b \in Clone!Actors : b # Nothing
  BY DEF Clone!SyncConstants, Clone!Actors, Clone!Run
<1>7. PICK r \in Fetcher :
         /\ actor' = [actor EXCEPT ![a] = r]
         /\ r.pc \in {"fetch", "record"} /\ r.todo = old.todo /\ r.want = old.want
         /\ r.pc = "record" /\ r.ok => clone' = [clone EXCEPT ![p] = origin[p]]
         /\ holder' = [holder EXCEPT ![p] = a] /\ (holder[p] = Nothing \/ holder[p] = a)
         /\ clone' = clone \/ clone' = [clone EXCEPT ![p] = origin[p]]
  <2>1. CASE Clone!Lock(a)
    <3>1. /\ actor' = [actor EXCEPT ![a].pc = "fetch"] /\ holder' = [holder EXCEPT ![p] = a]
          /\ holder[p] = Nothing /\ clone' = clone
      BY <2>1 DEF Clone!Lock
    <3> DEFINE r == [old EXCEPT !.pc = "fetch"]
    <3>2. r \in Fetcher /\ r.pc = "fetch" /\ r.todo = old.todo /\ r.want = old.want
      BY <1>1 DEF Fetcher
    <3>3. actor' = [actor EXCEPT ![a] = r]
      BY <3>1
    <3> HIDE DEF r
    <3> QED
      BY <3>1, <3>2, <3>3
  <2>2. CASE Clone!GitFetch(a)
    <3>1. /\ actor' = [actor EXCEPT ![a].pc = "record", ![a].ok = TRUE] /\ holder' = holder
          /\ clone' = [clone EXCEPT ![p] = origin[p]] /\ old.pc = "fetch"
      BY <2>2 DEF Clone!GitFetch
    <3> DEFINE r == [old EXCEPT !.pc = "record", !.ok = TRUE]
    <3>2. r \in Fetcher /\ r.pc = "record" /\ r.todo = old.todo /\ r.want = old.want
      BY <1>1 DEF Fetcher
    <3>3. actor' = [actor EXCEPT ![a] = r]
      BY <3>1, <1>1 DEF CloneInv, CloneTypes, Fetcher
    <3>4. holder[p] = a /\ holder' = [holder EXCEPT ![p] = a]
      BY <1>1, <1>4, <1>5, <3>1
    <3> HIDE DEF r
    <3> QED
      BY <3>1, <3>2, <3>3, <3>4
  <2>3. CASE Clone!FetchFails(a)
    <3>1. /\ actor' = [actor EXCEPT ![a].pc = "record", ![a].ok = FALSE] /\ holder' = holder
          /\ clone' = clone /\ old.pc = "fetch"
      BY <2>3 DEF Clone!FetchFails
    <3> DEFINE r == [old EXCEPT !.pc = "record", !.ok = FALSE]
    <3>2. r \in Fetcher /\ r.pc = "record" /\ ~r.ok /\ r.todo = old.todo /\ r.want = old.want
      BY <1>1 DEF Fetcher
    <3>3. actor' = [actor EXCEPT ![a] = r]
      BY <3>1, <1>1 DEF CloneInv, CloneTypes, Fetcher
    <3>4. holder[p] = a /\ holder' = [holder EXCEPT ![p] = a]
      BY <1>1, <1>4, <1>5, <3>1
    <3> HIDE DEF r
    <3> QED
      BY <3>1, <3>2, <3>3, <3>4
  <2> QED
    BY <2>1, <2>2, <2>3
<1>8. /\ clone' \in [Projects -> Nat] /\ holder' \in [Projects -> Clone!Actors \cup {Nothing}]
      /\ holder'[p] = a
  BY <1>1, <1>4, <1>7
<1>9. \A q \in Projects : clone[q] <= clone'[q] /\ clone'[q] <= origin[q]
  <2>1. CASE clone' = clone
    BY <1>1, <2>1
  <2>2. CASE clone' = [clone EXCEPT ![p] = origin[p]]
    <3>1. clone'[p] = origin[p] /\ \A q \in Projects \ {p} : clone'[q] = clone[q]
      BY <1>1, <1>4, <2>2
    <3>2. \A q \in Projects : clone[q] \in Nat /\ origin[q] \in Nat
      BY <1>1
    <3> QED
      BY <1>1, <3>1, <3>2
  <2> QED
    BY <1>7, <2>1, <2>2
<1>10. \A q \in Projects : \A b \in Clone!Actors : b # a /\ holder[q] = b => holder'[q] = b
  BY <1>1, <1>4, <1>6, <1>7
<1>11. Going(r, a, origin, clone', holder')
  <2>1. ASSUME r.pc = "record", r.ok PROVE r.want <= clone'[p]
    <3>1. clone'[p] = origin[p]
      BY <1>1, <1>4, <1>7, <2>1
    <3> QED
      BY <1>5, <1>7, <3>1
  <2> QED
    BY <1>3, <1>5, <1>7, <1>8, <2>1, Zenon DEF Going
<1>12. actor' \in [Clone!Actors -> Fetcher] /\ Fetchers' /\ \A q \in Projects : clone'[q] <= origin'[q]
  BY <1>2, <1>7, <1>8, <1>9, <1>10, <1>11, ActorKeepsClones
<1> QED
  BY <1>2, <1>8, <1>12, RestOfClones

\* The history says of every fetch that was done that it had what it was for.
Had(o) == \A i \in DOMAIN o.history : o.history[i].ok => o.history[i].has >= o.history[i].want

\* What a fetch leaves in the history (sync.go, recordFetch).
LEMMA RecordedHad ==
    ASSUME HistoryLimit \in Nat, NEW o \in Mirrored, Had(o), NEW a \in Clone!Actors, NEW p \in Projects,
           actor[a] \in Fetcher, clone[p] \in Nat, actor[a].ok => actor[a].want <= clone[p]
    PROVE  /\ Clone!Recorded(o, a, p) \in Mirrored /\ Had(Clone!Recorded(o, a, p))
           /\ Clone!Recorded(o, a, p).unpushed = o.unpushed
<1> DEFINE new == [kind |-> actor[a].kind, ok |-> actor[a].ok, want |-> actor[a].want, has |-> clone[p]]
<1>1. /\ new \in Fetched /\ new.ok = actor[a].ok /\ new.has = clone[p] /\ new.want = actor[a].want
      /\ new.want \in Nat /\ actor[a].num \in Nat
  BY DEF Fetched, Fetcher
<1>2. new.ok => new.has >= new.want
  BY <1>1
<1> PICK record : record = new
  OBVIOUS
<1>3. record \in Fetched /\ (record.ok => record.has >= record.want)
  BY <1>1, <1>2
<1>4. o.history \in Seq(Fetched) /\ o.unpushed \in SUBSET Commits /\ o.lastSeq \in Nat
  BY DEF Mirrored
<1> HIDE DEF new
<1>all. PICK all : all = Append(o.history, record)
  OBVIOUS
<1>5. /\ all \in Seq(Fetched) /\ Len(all) \in Nat
      /\ \A i \in DOMAIN all : all[i].ok => all[i].has >= all[i].want
  <2>1. all \in Seq(Fetched)
    BY <1>3, <1>4, <1>all
  <2>2. \A i \in DOMAIN all : all[i] = record \/ (i \in DOMAIN o.history /\ all[i] = o.history[i])
    BY <1>4, <1>all
  <2>3. \A i \in DOMAIN all : all[i].ok => all[i].has >= all[i].want
    BY <1>3, <2>2, Zenon DEF Had
  <2> QED
    BY <2>1, <2>3
<1>6. PICK rest : rest = IF Len(all) <= HistoryLimit THEN all
                         ELSE SubSeq(all, Len(all) - HistoryLimit + 1, Len(all))
  OBVIOUS
<1>7. rest \in Seq(Fetched) /\ \A i \in DOMAIN rest : \E j \in DOMAIN all : rest[i] = all[j]
  <2>1. CASE Len(all) <= HistoryLimit
    BY <1>5, <1>6, <2>1
  <2>2. CASE ~(Len(all) <= HistoryLimit)
    <3> PICK n \in Nat, k \in Nat : n = Len(all) /\ k = HistoryLimit
      BY <1>5
    <3>1. n > k
      BY <2>2
    <3>2. rest = SubSeq(all, n - k + 1, n)
      BY <1>6, <2>2
    <3>3. /\ rest \in Seq(Fetched) /\ Len(rest) = k
          /\ \A i \in 1 .. k : rest[i] = all[i + (n - k)] /\ i + (n - k) \in 1 .. n
      BY <1>5, <3>1, <3>2
    <3>4. DOMAIN rest = 1 .. k /\ DOMAIN all = 1 .. n
      BY <1>5, <3>3
    <3> QED
      BY <3>3, <3>4, Zenon
  <2> QED
    BY <2>1, <2>2
<1>8. \A i \in DOMAIN rest : rest[i].ok => rest[i].has >= rest[i].want
  BY <1>5, <1>7, Zenon
<1>9. PICK num \in Nat : num = IF actor[a].num > 0 THEN actor[a].num ELSE o.lastSeq
  BY <1>1, <1>4
<1>10. Clone!Recorded(o, a, p) = [o EXCEPT !.history = rest, !.lastSeq = num]
  <2>1. record = [kind |-> actor[a].kind, ok |-> actor[a].ok, want |-> actor[a].want, has |-> clone[p]]
    BY DEF new
  <2>2. num = IF actor[a].num > 0 THEN actor[a].num ELSE o.lastSeq
    BY <1>9
  <2> QED
    BY <1>all, <1>6, <2>1, <2>2, Zenon DEF Clone!Recorded
<1> DEFINE oo == [o EXCEPT !.history = rest, !.lastSeq = num]
<1>11. oo \in Mirrored /\ oo.history = rest /\ oo.unpushed = o.unpushed
  BY <1>4, <1>7 DEF Mirrored
<1>12. Had(oo)
  BY <1>8, <1>11, Zenon DEF Had
<1> QED
  BY <1>10, <1>11, <1>12

\* A poll that has more than one project left goes on to another.
LEMMA MoreToFetch ==
    ASSUME NEW q \in Seq(Projects), q # << >>, Len(q) # 1
    PROVE  Tail(q) \in Seq(Projects) /\ Tail(q) # << >> /\ Len(q) > 1
<1>1. Len(q) \in Nat /\ Len(q) # 0
  OBVIOUS
<1>2. Len(q) > 1
  BY <1>1
<1>3. Tail(q) \in Seq(Projects) /\ Len(Tail(q)) = Len(q) - 1
  OBVIOUS
<1>4. Len(Tail(q)) # 0
  BY <1>1, <1>2, <1>3
<1> QED
  BY <1>2, <1>3, <1>4

\* The result of a fetch is recorded, the lock given back, and a poll goes on to the next
\* project (sync.go, fetch and Poll).
LEMMA RecordKeepsClones ==
    ASSUME Clone!SyncConstants, CloneInv, NEW a \in Clone!Actors, Clone!Record(a)
    PROVE  CloneInv'
<1> PICK old : old = actor[a]
  OBVIOUS
<1> PICK p : p = Clone!Of(a)
  OBVIOUS
<1>1. /\ old \in Fetcher /\ Going(old, a, origin, clone, holder)
      /\ origin \in [Projects -> Nat] /\ clone \in [Projects -> Nat]
      /\ holder \in [Projects -> Clone!Actors \cup {Nothing}]
      /\ overlay \in [Projects -> Mirrored] /\ \A q \in Projects : clone[q] <= origin[q]
  BY DEF CloneInv, CloneTypes, Fetchers, Behind
<1>2. /\ old.pc = "record" /\ UNCHANGED <<origin, ahead, queue, seq, lost, clone>>
      /\ overlay' = [overlay EXCEPT ![p] = Clone!Recorded(overlay[p], a, p)]
      /\ holder' = [q \in Projects |-> IF q = p /\ holder[q] = a THEN Nothing ELSE holder[q]]
      /\ ~old.ok =>
            actor' = [actor EXCEPT ![a] = [Clone!Idle EXCEPT !.pc = IF a = Clone!Run THEN "returned" ELSE "idle"]]
      /\ old.ok /\ Len(old.todo) = 1 => actor' = [actor EXCEPT ![a] = Clone!Idle]
      /\ old.ok /\ Len(old.todo) # 1 =>
            actor' = [actor EXCEPT ![a] = [old EXCEPT !.pc = "lock", !.todo = Tail(old.todo)]]
  <2>1. actor[a].pc = "record" /\ UNCHANGED <<origin, ahead, queue, seq, lost, clone>>
    BY Zenon DEF Clone!Record, Clone!outside, Clone!feed
  <2>2. overlay' = [overlay EXCEPT ![p] = Clone!Recorded(overlay[p], a, p)]
    BY DEF Clone!Record
  <2>3. holder' = [q \in Projects |-> IF q = p /\ holder[q] = a THEN Nothing ELSE holder[q]]
    BY DEF Clone!Record
  <2>4. ~actor[a].ok =>
           actor' = [actor EXCEPT ![a] = [Clone!Idle EXCEPT !.pc = IF a = Clone!Run THEN "returned" ELSE "idle"]]
    BY DEF Clone!Record
  <2>5. actor[a].ok /\ Len(actor[a].todo) = 1 => actor' = [actor EXCEPT ![a] = Clone!Idle]
    BY DEF Clone!Record
  <2>6. actor[a].ok /\ Len(actor[a].todo) # 1 =>
           actor' = [actor EXCEPT ![a] = [actor[a] EXCEPT !.pc = "lock", !.todo = Tail(actor[a].todo)]]
    BY DEF Clone!Record
  <2> QED
    BY <2>1, <2>2, <2>3, <2>4, <2>5, <2>6, Zenon
<1>3. old.todo \in Seq(Projects) /\ old.todo # << >> /\ old.want \in Nat /\ p = Head(old.todo)
  BY <1>1, <1>2 DEF Going, Fetcher, Clone!Of
<1>4. p \in Projects
  BY <1>3
<1>5. (Len(old.todo) > 1 => old.want = 0) /\ (old.ok => old.want <= clone[p])
  BY <1>1, <1>2, <1>3, Zenon DEF Going
<1>6. PICK r \in Fetcher :
         /\ actor' = [actor EXCEPT ![a] = r]
         /\ \/ r.pc \in {"idle", "returned"}
            \/ r.pc = "lock" /\ r.todo # << >> /\ r.want = 0
  <2>1. CASE ~old.ok
    <3>1. PICK to \in {"idle", "returned"} : to = IF a = Clone!Run THEN "returned" ELSE "idle"
      BY Zenon
    <3>2. /\ [Clone!Idle EXCEPT !.pc = to] \in Fetcher
          /\ [Clone!Idle EXCEPT !.pc = to].pc \in {"idle", "returned"}
      BY <3>1, IdleFetcher
    <3>3. actor' = [actor EXCEPT ![a] = [Clone!Idle EXCEPT !.pc = to]]
      BY <1>2, <2>1, <3>1, Zenon
    <3> QED
      BY <3>2, <3>3, Zenon
  <2>2. CASE old.ok /\ Len(old.todo) = 1
    <3>1. actor' = [actor EXCEPT ![a] = Clone!Idle]
      BY <1>2, <2>2, Zenon
    <3> QED
      BY <3>1, IdleFetcher
  <2>3. CASE old.ok /\ Len(old.todo) # 1
    <3> DEFINE r == [old EXCEPT !.pc = "lock", !.todo = Tail(old.todo)]
    <3>1. Tail(old.todo) \in Seq(Projects) /\ Tail(old.todo) # << >> /\ Len(old.todo) > 1
      BY <1>3, <2>3, MoreToFetch
    <3>2. r \in Fetcher /\ r.pc = "lock" /\ r.todo = Tail(old.todo) /\ r.want = old.want
      BY <1>1, <3>1 DEF Fetcher
    <3>3. actor' = [actor EXCEPT ![a] = r]
      BY <1>2, <2>3, Zenon
    <3> HIDE DEF r
    <3> QED
      BY <1>5, <3>1, <3>2, <3>3
  <2> QED
    BY <2>1, <2>2, <2>3, Zenon
<1>7. /\ clone' \in [Projects -> Nat] /\ clone' = clone
      /\ holder' \in [Projects -> Clone!Actors \cup {Nothing}]
      /\ \A q \in Projects : clone[q] <= clone'[q] /\ clone'[q] <= origin[q]
      /\ \A q \in Projects : \A b \in Clone!Actors : b # a /\ holder[q] = b => holder'[q] = b
  BY <1>1, <1>2
<1>8. Going(r, a, origin, clone', holder')
  <2>1. ASSUME r.pc = "lock" PROVE r.todo # << >> /\ r.want = 0 /\ r.want <= origin[Head(r.todo)]
    <3>1. r.todo # << >> /\ r.want = 0 /\ r.todo \in Seq(Projects)
      BY <1>6, <2>1 DEF Fetcher
    <3>2. origin[Head(r.todo)] \in Nat
      BY <1>1, <3>1
    <3> QED
      BY <3>1, <3>2
  <2> QED
    BY <1>6, <2>1 DEF Going
<1>9. actor' \in [Clone!Actors -> Fetcher] /\ Fetchers' /\ \A q \in Projects : clone'[q] <= origin'[q]
  BY <1>2, <1>6, <1>7, <1>8, ActorKeepsClones
<1>10. PICK o : o = Clone!Recorded(overlay[p], a, p)
  OBVIOUS
<1>11. o \in Mirrored /\ Had(o) /\ o.unpushed = overlay[p].unpushed
  <2>1. overlay[p] \in Mirrored /\ Had(overlay[p])
    BY <1>1, <1>4 DEF CloneInv, Clone!RecordedFetchHasIt, Had
  <2>2. HistoryLimit \in Nat /\ clone[p] \in Nat /\ actor[a] \in Fetcher /\ (actor[a].ok => actor[a].want <= clone[p])
    BY <1>1, <1>4, <1>5 DEF Clone!SyncConstants
  <2> QED
    BY <1>4, <1>10, <2>1, <2>2, RecordedHad
<1>12. /\ overlay' \in [Projects -> Mirrored]
       /\ overlay'[p] = o /\ \A q \in Projects \ {p} : overlay'[q] = overlay[q]
  BY <1>1, <1>2, <1>4, <1>10, <1>11
<1>13. CloneTypes'
  BY <1>2, <1>7, <1>9, <1>12 DEF CloneInv, CloneTypes
<1>14. Behind'
  BY <1>2, <1>9 DEF CloneInv, Behind
<1>15. Clone!RecordedFetchHasIt'
  <2>1. ASSUME NEW q \in Projects PROVE Had(overlay'[q])
    <3>1. CASE q = p
      BY <1>11, <1>12, <3>1
    <3>2. CASE q # p
      BY <1>12, <3>2 DEF CloneInv, Clone!RecordedFetchHasIt, Had
    <3> QED
      BY <3>1, <3>2
  <2> QED
    BY <2>1 DEF Clone!RecordedFetchHasIt, Had
<1>16. Told'
  <2>1. \A q \in Projects : overlay'[q].unpushed = overlay[q].unpushed
    BY <1>11, <1>12
  <2> QED
    BY <1>2, <2>1 DEF CloneInv, Told
<1> QED
  BY <1>9, <1>13, <1>14, <1>15, <1>16 DEF CloneInv

\* Run takes an event; or the subscription, which is full, drops it, and Told promises nothing more.
LEMMA HandleEventKeepsClones ==
    ASSUME Clone!SyncConstants, CloneInv, Clone!HandleEvent
    PROVE  CloneInv'
<1> PICK e : e = Head(queue)
  OBVIOUS
<1> PICK p : p = e.project
  OBVIOUS
<1> PICK unpushed : unpushed = Clone!UnpushedAfter(e, overlay[p].unpushed)
  OBVIOUS
<1>1. /\ queue # << >> /\ queue \in Seq(Announced)
      /\ origin \in [Projects -> Nat] /\ clone \in [Projects -> Nat]
      /\ holder \in [Projects -> Clone!Actors \cup {Nothing}]
      /\ overlay \in [Projects -> Mirrored] /\ ahead \in [Projects -> SUBSET Commits]
      /\ \A q \in Projects : clone[q] <= origin[q]
  BY Zenon DEF CloneInv, CloneTypes, Behind, Clone!HandleEvent
<1>2. e \in Announced /\ e = queue[1] /\ 1 \in DOMAIN queue
  BY <1>1
<1>3. p \in Projects /\ e.num \in Nat /\ e.want \in Nat /\ e.type \in Whys \cup {"commit"} /\ e.ok \in BOOLEAN
  BY <1>2, WhysAre DEF Announced
<1>4. /\ overlay' = [overlay EXCEPT ![p].unpushed = unpushed,
                                    ![p].lastSeq = IF e.type = "origin" THEN overlay[p].lastSeq ELSE e.num]
      /\ queue' = Tail(queue) /\ UNCHANGED <<origin, ahead, seq, lost, clone, holder>>
  BY <1>1, <1>3 DEF Clone!HandleEvent, Clone!outside, Mirrored
<1>5. \/ actor' = actor
      \/ e.type # "commit" /\ Clone!Begin(Clone!Run, e.type, <<p>>, e.num, e.want)
  BY Zenon DEF Clone!HandleEvent
<1>6. unpushed \in SUBSET Commits
  <2>1. overlay[p].unpushed \in SUBSET Commits /\ e.commits \in SUBSET Commits
    BY <1>1, <1>2, <1>3 DEF Mirrored, Announced
  <2> QED
    BY <2>1 DEF Clone!UnpushedAfter
<1>7. /\ overlay' \in [Projects -> Mirrored]
      /\ overlay'[p].unpushed = unpushed /\ overlay'[p].history = overlay[p].history
      /\ \A q \in Projects \ {p} : overlay'[q] = overlay[q]
  <2> PICK old \in Mirrored : old = overlay[p]
    BY <1>1, <1>3
  <2> PICK num \in Nat : num = IF e.type = "origin" THEN overlay[p].lastSeq ELSE e.num
    BY <1>1, <1>3 DEF Mirrored
  <2> DEFINE o == [old EXCEPT !.unpushed = unpushed, !.lastSeq = num]
  <2>1. o \in Mirrored /\ o.unpushed = unpushed /\ o.history = old.history
    BY <1>6 DEF Mirrored
  <2>2. overlay' = [overlay EXCEPT ![p] = o]
    BY <1>1, <1>3, <1>4 DEF Mirrored
  <2> HIDE DEF o
  <2> QED
    BY <1>1, <1>3, <2>1, <2>2
<1>8. actor' \in [Clone!Actors -> Fetcher] /\ Fetchers' /\ \A q \in Projects : clone'[q] <= origin'[q]
  <2>1. CASE actor' = actor
    <3>1. Fetchers'
      BY <1>4, <2>1, Zenon DEF CloneInv, Fetchers, Clone!Actors, Clone!Run
    <3> QED
      BY <1>1, <1>4, <2>1, <3>1 DEF CloneInv, CloneTypes
  <2>2. CASE e.type # "commit" /\ Clone!Begin(Clone!Run, e.type, <<p>>, e.num, e.want)
    <3> PICK r : r = [pc |-> "lock", todo |-> <<p>>, kind |-> e.type, num |-> e.num, want |-> e.want, ok |-> FALSE]
      OBVIOUS
    <3>1. actor' = [actor EXCEPT ![Clone!Run] = r]
      BY <2>2, Zenon DEF Clone!Begin
    <3>2. e.type \in Whys
      BY <1>3, <2>2
    <3>3. r \in Fetcher
      BY <1>3, <3>2 DEF Fetcher
    <3>4. e.want <= origin[p]
      BY <1>2 DEF CloneInv, Behind
    <3>5. Going(r, Clone!Run, origin, clone', holder')
      BY <1>3, <3>4 DEF Going
    <3>6. Clone!Run \in Clone!Actors
      BY DEF Clone!Actors
    <3>7. /\ clone' \in [Projects -> Nat] /\ holder' \in [Projects -> Clone!Actors \cup {Nothing}]
          /\ \A q \in Projects : clone[q] <= clone'[q] /\ clone'[q] <= origin[q]
          /\ \A q \in Projects : \A b \in Clone!Actors : b # Clone!Run /\ holder[q] = b => holder'[q] = b
      BY <1>1, <1>4
    <3> QED
      BY <1>4, <3>1, <3>3, <3>5, <3>6, <3>7, ActorKeepsClones
  <2> QED
    BY <1>5, <2>1, <2>2
<1>9. CloneTypes'
  BY <1>1, <1>4, <1>7, <1>8 DEF CloneInv, CloneTypes
<1>10. Behind'
  <2> SUFFICES ASSUME NEW i \in DOMAIN queue' PROVE queue'[i].want <= origin[queue'[i].project]
    BY <1>4, <1>8 DEF Behind
  <2>1. i + 1 \in DOMAIN queue /\ queue'[i] = queue[i + 1]
    BY <1>1, <1>4
  <2> QED
    BY <2>1 DEF CloneInv, Behind
<1>11. Clone!RecordedFetchHasIt'
  <2>1. \A q \in Projects : overlay'[q].history = overlay[q].history
    BY <1>7
  <2> QED
    BY <2>1, Zenon DEF CloneInv, Clone!RecordedFetchHasIt
<1>12. Told'
  <2> SUFFICES ASSUME ~lost, NEW q \in Projects PROVE Replays(Tail(queue), q, overlay'[q].unpushed, ahead[q])
    BY <1>4 DEF Told
  <2>1. Replays(queue, q, overlay[q].unpushed, ahead[q])
    BY DEF CloneInv, Told
  <2>2. overlay[q].unpushed \in SUBSET Commits /\ ahead[q] \in SUBSET Commits
    BY <1>1 DEF Mirrored
  <2>3. overlay'[q].unpushed = IF Head(queue).project = q THEN Clone!UnpushedAfter(Head(queue), overlay[q].unpushed)
                               ELSE overlay[q].unpushed
    <3>1. CASE q = p
      BY <1>7, <3>1
    <3>2. CASE q # p
      BY <1>7, <3>2
    <3> QED
      BY <3>1, <3>2
  <2> QED
    BY <1>1, <2>1, <2>2, <2>3, HearingReplays
<1> QED
  BY <1>8, <1>9, <1>10, <1>11, <1>12 DEF CloneInv

LEMMA CloneInit == ASSUME Clone!SyncConstants PROVE Clone!Init => CloneInv
<1> SUFFICES ASSUME Clone!Init PROVE CloneInv
  OBVIOUS
<1>1. /\ origin = [p \in Projects |-> 0] /\ ahead = [p \in Projects |-> {}]
      /\ queue = << >> /\ seq = 0
      /\ clone = [p \in Projects |-> 0] /\ holder = [p \in Projects |-> Nothing]
      /\ overlay = [p \in Projects |-> [unpushed |-> {}, lastSeq |-> 0, history |-> << >>]]
      /\ actor = [a \in Clone!Actors |-> Clone!Idle]
  BY Zenon DEF Clone!Init
<1>2. CloneTypes
  <2>1. actor \in [Clone!Actors -> Fetcher]
    BY <1>1, IdleFetcher
  <2>2. overlay \in [Projects -> Mirrored]
    BY <1>1 DEF Mirrored
  <2> QED
    BY <1>1, <2>1, <2>2 DEF CloneTypes
<1>3. Fetchers
  BY <1>1, IdleFetcher DEF Fetchers, Going
<1>4. Behind /\ Clone!RecordedFetchHasIt
  BY <1>1 DEF Behind, Clone!RecordedFetchHasIt
<1>5. Told
  <2> SUFFICES ASSUME NEW p \in Projects PROVE Replays(<< >>, p, {}, {})
    BY <1>1 DEF Told
  <2> DEFINE h == [i \in 0 .. 0 |-> {}]
  <2>1. h \in [0 .. 0 -> SUBSET Commits] /\ h[0] = {}
    OBVIOUS
  <2> HIDE DEF h
  <2>2. Replay(h, << >>, p, {}, {})
    BY <2>1 DEF Replay
  <2> QED
    BY <2>2 DEF Replays
<1> QED
  BY <1>2, <1>3, <1>4, <1>5 DEF CloneInv

LEMMA CloneStep == ASSUME Clone!SyncConstants PROVE CloneInv /\ [Clone!Next]_(Clone!syncVars) => CloneInv'
<1> SUFFICES ASSUME Clone!SyncConstants, CloneInv, [Clone!Next]_(Clone!syncVars) PROVE CloneInv'
  OBVIOUS
<1>1. ASSUME UNCHANGED <<origin, ahead, seq, clone, holder, overlay, actor>>,
             \/ queue' = queue /\ lost' = lost
             \/ queue # << >> /\ queue' = Tail(queue) /\ lost'
      PROVE  CloneInv'
  <2>1. queue \in Seq(Announced) /\ queue' \in Seq(Announced)
    <3>1. queue \in Seq(Announced)
      BY DEF CloneInv, CloneTypes
    <3>2. CASE queue' = queue
      BY <3>1, <3>2
    <3>3. CASE queue # << >> /\ queue' = Tail(queue)
      BY <3>1, <3>3
    <3> QED
      BY <1>1, <3>1, <3>2, <3>3, Zenon
  <2>2. CloneTypes'
    BY <1>1, <2>1 DEF CloneInv, CloneTypes
  <2>3. Fetchers'
    BY <1>1, Zenon DEF CloneInv, Fetchers, Clone!Actors, Clone!Run
  <2>4. Behind'
    <3>1. ASSUME NEW i \in DOMAIN queue' PROVE queue'[i] \in {queue[j] : j \in DOMAIN queue}
      <4>1. CASE queue' = queue
        BY <4>1
      <4>2. CASE queue # << >> /\ queue' = Tail(queue)
        <5>1. i + 1 \in DOMAIN queue /\ queue'[i] = queue[i + 1]
          BY <2>1, <4>2
        <5> QED
          BY <5>1
      <4> QED
        BY <1>1, <4>1, <4>2, Zenon
    <3> QED
      BY <1>1, <3>1 DEF CloneInv, Behind
  <2>5. Clone!RecordedFetchHasIt' /\ Told'
    BY <1>1 DEF CloneInv, Clone!RecordedFetchHasIt, Told
  <2> QED
    BY <2>2, <2>3, <2>4, <2>5 DEF CloneInv
<1>2. CASE UNCHANGED Clone!syncVars
  <2>1. UNCHANGED <<origin, ahead, queue, seq, lost, clone, holder, overlay, actor>>
    BY <1>2, Zenon DEF Clone!syncVars, Clone!outside, Clone!feed
  <2>2. CloneTypes'
    BY <2>1 DEF CloneInv, CloneTypes
  <2>3. Fetchers'
    BY <2>1, Zenon DEF CloneInv, Fetchers, Clone!Actors, Clone!Run
  <2>4. Behind' /\ Clone!RecordedFetchHasIt' /\ Told'
    BY <2>1 DEF CloneInv, Behind, Clone!RecordedFetchHasIt, Told
  <2> QED
    BY <2>2, <2>3, <2>4 DEF CloneInv
<1>3. CASE Clone!Lose
  <2>1. /\ UNCHANGED <<origin, ahead, seq, clone, holder, overlay, actor>>
        /\ queue # << >> /\ queue' = Tail(queue) /\ lost'
    BY <1>3, Zenon DEF Clone!Lose, Clone!outside
  <2> QED
    BY <1>1, <2>1
<1>4. ASSUME NEW p \in Projects,
             \/ \E c \in Commits : Clone!VPSCommit(p, c)
             \/ \E S \in SUBSET ahead[p] : Clone!Push(p, S) \/ Clone!PushFails(p, S)
             \/ Clone!OriginAdvances(p)
             \/ \E c \in Callers : Clone!Refresh(c, p)
      PROVE  CloneInv'
  BY <1>4, WatcherKeepsClones, BeginningKeepsClones
<1>5. ASSUME NEW a \in Clone!Actors, Clone!Fetching(a) \/ Clone!FetchFails(a) PROVE CloneInv'
  BY <1>5, FetchingKeepsClones, RecordKeepsClones DEF Clone!Fetching
<1>6. CASE Clone!HandleEvent \/ Clone!Tick
  BY <1>6, HandleEventKeepsClones, BeginningKeepsClones
<1> QED
  BY <1>2, <1>3, <1>4, <1>5, <1>6, Zenon DEF Clone!Next

\* Whatever triggers meet at a project, and in whatever order they lock, fetch and fail, one git
\* fetch runs in its clone at a time (sync.go, projectState.lock).
THEOREM OneFetchAtATime ==
    ASSUME Clone!SyncConstants PROVE Clone!Spec => []Clone!OneFetchPerClone
<1>1. CloneInv => Clone!OneFetchPerClone
  <2> SUFFICES ASSUME CloneInv, NEW p \in Projects
               PROVE  Clone!Cardinality({a \in Clone!Actors : actor[a].pc \in {"fetch", "record"} /\ Clone!Of(a) = p}) <= 1
    BY DEF Clone!OneFetchPerClone
  <2> DEFINE S == {a \in Clone!Actors : actor[a].pc \in {"fetch", "record"} /\ Clone!Of(a) = p}
  <2>1. \A a \in S : a = holder[p]
    BY DEF CloneInv, Fetchers, Going, Clone!Of
  <2>2. S \in SUBSET {holder[p]}
    BY <2>1
  <2> HIDE DEF S
  <2>3. IsFiniteSet({holder[p]}) /\ Cardinality({holder[p]}) = 1
    BY FS_Singleton
  <2>4. IsFiniteSet(S) /\ Cardinality(S) <= 1
    BY <2>2, <2>3, FS_Subset
  <2>5. Clone!Cardinality(S) = Cardinality(S)
    BY DEF Clone!Cardinality, Cardinality
  <2> QED
    BY <2>4, <2>5 DEF S
<1> QED
  BY <1>1, CloneInit, CloneStep, PTL DEF Clone!Spec

\* A fetch that the history calls done for an event has in the clone what the event announced,
\* however long it waited for the lock (sync.go, fetch and recordFetch); and as long as the bus
\* dropped nothing, an overlay that has heard everything names the commits that the server has
\* not pushed, and no other (recordUnpushed and recordPushed).
THEOREM ClonesAreTrue ==
    ASSUME Clone!SyncConstants
    PROVE  Clone!Spec => [](Clone!RecordedFetchHasIt /\ Clone!OverlayIsTrue)
<1>1. CloneInv => Clone!RecordedFetchHasIt /\ Clone!OverlayIsTrue
  <2> SUFFICES ASSUME CloneInv, NEW p \in Projects, queue = << >>, ~lost PROVE overlay[p].unpushed = ahead[p]
    BY DEF CloneInv, Clone!OverlayIsTrue
  <2>1. PICK h : Replay(h, << >>, p, overlay[p].unpushed, ahead[p])
    BY Zenon DEF CloneInv, Told, Replays
  <2> QED
    BY <2>1 DEF Replay
<1> QED
  BY <1>1, CloneInit, CloneStep, PTL DEF Clone!Spec

-----------------------------------------------------------------------------
(* TunnelOrchestrator.  A call that has closed the tunnel and has yet to   *)
(* say so holds everything still, but for the one that has found a captive *)
(* portal; a pipeline that is current is where the state says, and has no  *)
(* tunnel until it has opened the one it goes on with.                     *)

CONSTANTS Signals, Probing, MaxGeneration
VARIABLES snapshot, profile, timer, generation, tasks, opened, accepted, heartbeat
Tunnel == INSTANCE TunnelOrchestrator

Snapshots == [state : Tunnel!States, fault : {"none", "auth_rejected", "other"}, attempts : 0 .. 2,
              retry : BOOLEAN, port : Nat]
Detected == "network_captive_portal_detected"
NetworkEvents == {"network_changed", "network_online", "network_offline", "network_route_changed",
                  "network_vpn_state_changed", "network_captive_portal_detected",
                  "network_captive_portal_cleared"}

\* TRANSITIONS, state by state.
LEMMA SetsOut ==
    ASSUME NEW s \in Snapshots
    PROVE  /\ s.state \in {"unconfigured", "disconnected"} =>
                  Tunnel!Dispatch(s, "profile_set", 0).state = "ssh_probing"
           /\ s.state = "disconnected" =>
                  Tunnel!Dispatch(Tunnel!Dispatch(s, "system_wake", 0), "profile_set", 0).state = "ssh_probing"
           /\ Tunnel!Dispatch(s, "backoff_elapsed", 0).state =
                  IF s.state = "reconnecting" THEN "ssh_probing" ELSE s.state
<1>1. s.state \in {"unconfigured", "disconnected"} =>
          Tunnel!Dispatch(s, "profile_set", 0).state = "ssh_probing"
  BY DEF Tunnel!Dispatch, Tunnel!Listed, Tunnel!Fresh, Snapshots
<1>2. s.state = "disconnected" => Tunnel!Dispatch(s, "system_wake", 0) = [s EXCEPT !.state = "ssh_probing"]
  BY DEF Tunnel!Dispatch, Tunnel!Listed
<1>3. \A r \in Snapshots : r.state = "ssh_probing" => Tunnel!Dispatch(r, "profile_set", 0) = r
  <2> TAKE r \in Snapshots
  <2>1. r.state = "ssh_probing" => r.state \notin Tunnel!Listed("profile_set")
    BY DEF Tunnel!Listed
  <2> QED
    BY <2>1 DEF Tunnel!Dispatch
<1>4. [s EXCEPT !.state = "ssh_probing"] \in Snapshots /\ [s EXCEPT !.state = "ssh_probing"].state = "ssh_probing"
  BY DEF Snapshots, Tunnel!States, Tunnel!Working, Tunnel!Connecting
<1>5. s.state = "reconnecting" => Tunnel!Dispatch(s, "backoff_elapsed", 0) = [s EXCEPT !.state = "ssh_probing"]
  BY DEF Tunnel!Dispatch, Tunnel!Listed
<1>6. s.state # "reconnecting" => Tunnel!Dispatch(s, "backoff_elapsed", 0) = s
  BY DEF Tunnel!Dispatch, Tunnel!Listed
<1> QED
  BY <1>1, <1>2, <1>3, <1>4, <1>5, <1>6
LEMMA Advances ==
    ASSUME NEW s \in Snapshots, NEW p \in Nat
    PROVE  /\ Tunnel!Dispatch(s, "ssh_probe_succeeded", p) =
                  IF s.state = "ssh_probing" THEN [s EXCEPT !.state = "bootstrapping"] ELSE s
           /\ Tunnel!Dispatch(s, "bootstrap_succeeded", p) =
                  IF s.state = "bootstrapping" THEN [s EXCEPT !.state = "tunnel_connecting"] ELSE s
           /\ Tunnel!Dispatch(s, "tunnel_opened", p) =
                  IF s.state = "tunnel_connecting" THEN [s EXCEPT !.state = "authenticating"] ELSE s
           /\ Tunnel!Dispatch(s, "auth_succeeded", p) =
                  IF s.state = "authenticating" THEN [Tunnel!Fresh EXCEPT !.state = "ready", !.port = p] ELSE s
           /\ Tunnel!Dispatch(s, "heartbeat_ok", p) =
                  IF s.state = "degraded" THEN [Tunnel!Fresh EXCEPT !.state = "ready", !.port = s.port] ELSE s
           /\ Tunnel!Dispatch(s, "version_mismatch", p) =
                  IF s.state = "ready" THEN [s EXCEPT !.state = "degraded", !.fault = "other"] ELSE s
           /\ Tunnel!Dispatch(s, "bearer_expired", p) =
                  IF s.state = "ready" THEN [s EXCEPT !.state = "authenticating"] ELSE s
           /\ Tunnel!Dispatch(s, "auth_failed", p) =
                  IF s.state = "authenticating" THEN [s EXCEPT !.fault = "auth_rejected"] ELSE s
  BY DEF Tunnel!Dispatch, Tunnel!Listed, Tunnel!Up
LEMMA FallsBack ==
    ASSUME NEW s \in Snapshots
    PROVE  /\ Tunnel!Dispatch(s, "ssh_probe_failed", 0) =
                  IF s.state = "ssh_probing" THEN Tunnel!Reconnect(s) ELSE s
           /\ Tunnel!Dispatch(s, "bootstrap_failed", 0) =
                  IF s.state = "bootstrapping" THEN Tunnel!Reconnect(s) ELSE s
           /\ Tunnel!Dispatch(s, "tunnel_closed", 0) =
                  IF s.state \in {"tunnel_connecting", "authenticating", "ready", "degraded"}
                  THEN Tunnel!Reconnect(s) ELSE s
           /\ Tunnel!Dispatch(s, "heartbeat_timeout", 0) =
                  IF s.state \in {"ready", "degraded"} THEN Tunnel!Reconnect(s) ELSE s
  BY DEF Tunnel!Dispatch, Tunnel!Listed, Tunnel!Up
LEMMA Hears ==
    ASSUME NEW s \in Snapshots, NEW event \in NetworkEvents
    PROVE  /\ s.state \notin Tunnel!Listed(event) => Tunnel!Dispatch(s, event, 0) = s
           /\ Tunnel!Listed(event) \subseteq Tunnel!Active
           /\ s.state \in Tunnel!Listed(event) =>
                 Tunnel!Dispatch(s, event, 0) \in {Tunnel!Reconnect(s), Tunnel!Pause(s, "awaiting_network"),
                                                   Tunnel!Pause(s, "captive_portal_blocked")}
           /\ event = Detected =>
                 Tunnel!Dispatch(s, event, 0) =
                    IF s.state \in Tunnel!Active \ {"captive_portal_blocked"}
                    THEN Tunnel!Pause(s, "captive_portal_blocked") ELSE s
  BY DEF Tunnel!Dispatch, Tunnel!Listed, NetworkEvents, Detected, Tunnel!Active, Tunnel!Paused, Tunnel!States
LEMMA HangsUp ==
    ASSUME NEW s \in Snapshots
    PROVE  /\ Tunnel!Dispatch(s, "user_disconnect", 0) =
                  IF s.state \in Tunnel!Active THEN Tunnel!Pause(s, "disconnected") ELSE s
           /\ Tunnel!Dispatch(s, "system_sleep", 0) =
                  IF s.state \in Tunnel!Active THEN [s EXCEPT !.state = "disconnected"] ELSE s
  BY DEF Tunnel!Dispatch, Tunnel!Listed

\* Whatever is dispatched, a port is the one there was, none, or the one that is given.
LEMMA DispatchTyped ==
    ASSUME NEW s \in Snapshots, NEW event, NEW p \in Nat
    PROVE  Tunnel!Dispatch(s, event, p) \in Snapshots /\ Tunnel!Dispatch(s, event, p).port \in {0, s.port, p}
<1>1. Tunnel!Fresh \in Snapshots /\ Tunnel!Fresh.port = 0
  BY DEF Tunnel!Fresh, Snapshots, Tunnel!States
<1>2. Tunnel!Reconnect(s) \in Snapshots /\ Tunnel!Reconnect(s).port = 0
  BY DEF Tunnel!Reconnect, Snapshots, Tunnel!States
<1>3. ASSUME NEW to \in Tunnel!States
      PROVE  /\ Tunnel!Pause(s, to) \in Snapshots /\ Tunnel!Pause(s, to).port = 0
             /\ [s EXCEPT !.state = to] \in Snapshots /\ [s EXCEPT !.state = to].port = s.port
  BY DEF Tunnel!Pause, Snapshots
<1>4. {"ssh_probing", "bootstrapping", "tunnel_connecting", "authenticating", "ready", "disconnected",
       "degraded", "awaiting_network", "captive_portal_blocked"} \subseteq Tunnel!States
  BY DEF Tunnel!States, Tunnel!Working, Tunnel!Connecting, Tunnel!Up, Tunnel!Paused
<1>5. /\ [Tunnel!Fresh EXCEPT !.state = "ssh_probing"] \in Snapshots
      /\ [Tunnel!Fresh EXCEPT !.state = "ssh_probing"].port = 0
  BY <1>1, <1>4 DEF Snapshots
<1>6. \A q \in {p, s.port} : /\ [Tunnel!Fresh EXCEPT !.state = "ready", !.port = q] \in Snapshots
                             /\ [Tunnel!Fresh EXCEPT !.state = "ready", !.port = q].port = q
  BY <1>1, <1>4 DEF Snapshots
<1>7. /\ [s EXCEPT !.fault = "auth_rejected"] \in Snapshots
      /\ [s EXCEPT !.fault = "auth_rejected"].port = s.port
      /\ [s EXCEPT !.state = "degraded", !.fault = "other"] \in Snapshots
      /\ [s EXCEPT !.state = "degraded", !.fault = "other"].port = s.port
  BY <1>4 DEF Snapshots
<1>8. Tunnel!Dispatch(s, event, p) \in
          {s, [Tunnel!Fresh EXCEPT !.state = "ssh_probing"], [s EXCEPT !.fault = "auth_rejected"],
           [Tunnel!Fresh EXCEPT !.state = "ready", !.port = p],
           [Tunnel!Fresh EXCEPT !.state = "ready", !.port = s.port],
           [s EXCEPT !.state = "degraded", !.fault = "other"], Tunnel!Reconnect(s)}
       \cup {[s EXCEPT !.state = to] : to \in {"ssh_probing", "bootstrapping", "tunnel_connecting",
                                               "authenticating", "disconnected"}}
       \cup {Tunnel!Pause(s, to) : to \in {"disconnected", "awaiting_network", "captive_portal_blocked"}}
  <2> DEFINE l == Tunnel!Listed(event)
  <2> HIDE DEF l
  <2> QED
    BY DEF Tunnel!Dispatch, l
<1>9. \A to \in {"ssh_probing", "bootstrapping", "tunnel_connecting", "authenticating", "disconnected"} :
         [s EXCEPT !.state = to] \in Snapshots /\ [s EXCEPT !.state = to].port = s.port
  BY <1>3, <1>4
<1>10. \A to \in {"disconnected", "awaiting_network", "captive_portal_blocked"} :
         Tunnel!Pause(s, to) \in Snapshots /\ Tunnel!Pause(s, to).port = 0
  BY <1>3, <1>4
<1> HIDE DEF Snapshots
<1> QED
  BY <1>2, <1>5, <1>6, <1>7, <1>8, <1>9, <1>10

-----------------------------------------------------------------------------
TaskSet == [at : Tunnel!Stages \cup Tunnel!Calls \cup {"captive", "tick"}, gen : Nat,
            event : Signals \cup {"none", Detected}, tunnel : Nat]
LineTypes ==
    /\ snapshot \in Snapshots /\ snapshot.port <= opened
    /\ profile \in BOOLEAN /\ timer \in BOOLEAN /\ generation \in 0 .. MaxGeneration
    /\ opened \in Nat /\ accepted \subseteq 1 .. opened /\ current \in 0 .. opened
    /\ live = {current} \ {0}
    /\ tasks \subseteq TaskSet /\ \A t \in tasks : t.tunnel <= opened
    /\ heartbeat \in [tunnel : Nat, armed : BOOLEAN, gen : Nat] /\ heartbeat.tunnel <= opened
\* The heartbeat is of the tunnel that is shown, and a tick that counts is of that heartbeat.
Beats ==
    /\ heartbeat.tunnel # 0 => snapshot.state = "ready" /\ heartbeat.tunnel = snapshot.port
    /\ heartbeat.armed => heartbeat.tunnel # 0
    /\ \A t \in tasks : t.at = "tick" =>
          /\ t.gen <= heartbeat.gen
          /\ t.gen = heartbeat.gen => t.tunnel = heartbeat.tunnel /\ t.tunnel # 0

Mine(t) == t.at \in Tunnel!Stages /\ t.gen = generation
Young(t) == t.at \in {"probe", "bootstrap", "open"}
Wild(t) == t.at = "network" /\ t.event = Detected
\* One pipeline is current and one call waits.
OnePipeline ==
    /\ \A t \in tasks : t.at # "tick" => t.gen <= generation
    /\ \A t, u \in tasks : t.at \in Tunnel!Calls /\ u.at \in Tunnel!Calls => t = u
    /\ \A t, u \in tasks : Mine(t) /\ Mine(u) => t = u
\* What the state says of the timer, the profile and the tunnel.
Stands ==
    /\ timer => /\ snapshot.state \in {"reconnecting", "captive_portal_blocked"} /\ current = 0
                /\ \A t \in tasks : Mine(t) => ~Young(t)
    /\ snapshot.state = "unconfigured" \/ profile
    /\ snapshot.state = "reconnecting" => snapshot.retry /\ current = 0
    /\ snapshot.state \in {"unconfigured", "disconnected", "awaiting_network"} =>
          current = 0 /\ \A t \in tasks : ~Mine(t)
    /\ snapshot.state \in Tunnel!Up /\ current # 0 => snapshot.port = current /\ current \in accepted
Doing(t) ==
    \/ t.at = "probe" /\ snapshot.state = "ssh_probing"
    \/ t.at = "bootstrap" /\ snapshot.state = "bootstrapping"
    \/ t.at = "open" /\ snapshot.state = "tunnel_connecting"
    \/ t.at = "auth" /\ snapshot.state = "authenticating"
\* Where a pipeline that is current may be.
At(t) ==
    /\ \/ snapshot.state = "captive_portal_blocked"
       \/ Doing(t)
       \/ t.at \in {"auth", "check"} /\ snapshot.state = "reconnecting"
       \/ t.at = "check" /\ snapshot.state \in {"ready", "authenticating"}
    /\ IF Young(t) THEN current = 0 ELSE t.tunnel # 0 /\ current \in {0, t.tunnel}
\* What a waiting call holds.
Held(t) ==
    /\ t.at \in {"disconnect", "sleep", "network"} /\ ~Wild(t) =>
          /\ current = 0 /\ ~timer /\ heartbeat.tunnel = 0 /\ \A u \in tasks : ~Mine(u)
          /\ snapshot.state \in IF t.at = "network" THEN Tunnel!Listed(t.event) ELSE Tunnel!Active
    /\ t.at = "network" => t.event # "none"
    /\ Wild(t) => snapshot.state \in Tunnel!Active
    /\ t.at = "bearer" => /\ snapshot.state = "authenticating" /\ current = t.tunnel /\ current # 0
                          /\ \A u \in tasks : Mine(u) => u.at = "check"
Still == \A t \in tasks : t.at \notin Tunnel!Calls
\* With no call waiting, what is shown is so.
AtRest ==
    Still =>
       /\ snapshot.state \in Tunnel!Up => current # 0
       /\ snapshot.state = "reconnecting" => timer \/ \E t \in tasks : t.at = "captive"
       /\ snapshot.state \in Tunnel!Working =>
             \/ snapshot.state = "authenticating" /\ snapshot.fault = "auth_rejected"
             \/ \E t \in tasks : Mine(t) /\ Doing(t)
LineInv ==
    /\ LineTypes /\ Beats /\ OnePipeline /\ Stands /\ AtRest
    /\ \A t \in tasks : Mine(t) => At(t)
    /\ \A t \in tasks : Held(t)

LEMMA ShowKeepsBeats ==
    ASSUME LineTypes, Beats, NEW s \in Snapshots, Tunnel!Show(s), s.port <= opened,
           s.state = "ready" => s.port # 0,
           s.state = "ready" /\ snapshot.state = "ready" => s.port = snapshot.port,
           \A t \in tasks' : t.at = "tick" => t \in tasks,
           tasks \subseteq TaskSet
    PROVE  /\ snapshot' = s /\ Beats'
           /\ heartbeat' \in [tunnel : Nat, armed : BOOLEAN, gen : Nat]
           /\ heartbeat'.tunnel <= opened
           /\ s.state # "ready" => heartbeat'.tunnel = 0
<1>1. snapshot' = s
  BY DEF Tunnel!Show
<1>2. CASE s.state = "ready" /\ snapshot.state # "ready"
  <2>1. heartbeat' = [tunnel |-> s.port, armed |-> TRUE, gen |-> heartbeat.gen + 1]
    BY <1>2 DEF Tunnel!Show
  <2>2. s.port \in Nat /\ heartbeat.gen \in Nat
    BY DEF Snapshots, LineTypes
  <2>3. \A t \in tasks : t.gen \in Nat
    BY DEF TaskSet
  <2> QED
    BY <1>1, <1>2, <2>1, <2>2, <2>3 DEF Beats
<1>3. CASE s.state # "ready" /\ heartbeat.tunnel # 0
  <2>1. heartbeat' = [tunnel |-> 0, armed |-> FALSE, gen |-> heartbeat.gen + 1]
    BY <1>3 DEF Tunnel!Show
  <2>2. heartbeat.gen \in Nat /\ opened \in Nat
    BY DEF LineTypes
  <2>3. \A t \in tasks : t.gen \in Nat
    BY DEF TaskSet
  <2> QED
    BY <1>1, <1>3, <2>1, <2>2, <2>3 DEF Beats
<1>4. CASE ~(s.state = "ready" /\ snapshot.state # "ready") /\ ~(s.state # "ready" /\ heartbeat.tunnel # 0)
  <2>1. heartbeat' = heartbeat
    BY <1>4 DEF Tunnel!Show
  <2> QED
    BY <1>1, <1>4, <2>1 DEF Beats, LineTypes
<1> QED
  BY <1>2, <1>3, <1>4

LEMMA LineInit == ASSUME Tunnel!TunnelConstants PROVE Tunnel!Init => LineInv
<1> SUFFICES ASSUME Tunnel!Init PROVE LineInv
  OBVIOUS
<1>1. /\ snapshot = Tunnel!Fresh /\ profile = FALSE /\ current = 0 /\ timer = FALSE /\ generation = 0
      /\ tasks = {} /\ live = {} /\ opened = 0 /\ accepted = {}
      /\ heartbeat = [tunnel |-> 0, armed |-> FALSE, gen |-> 0]
  BY DEF Tunnel!Init
<1>2. /\ snapshot \in Snapshots /\ snapshot.state = "unconfigured" /\ snapshot.port = 0
  BY <1>1 DEF Tunnel!Fresh, Snapshots, Tunnel!States
<1>3. profile \in BOOLEAN /\ timer \in BOOLEAN
  BY <1>1, Zenon
<1>4. 0 \in 0 .. MaxGeneration
  BY DEF Tunnel!TunnelConstants
<1> QED
  BY <1>1, <1>2, <1>3, <1>4 DEF LineInv, LineTypes, Beats, OnePipeline, Stands, AtRest, Tunnel!Up, Tunnel!Working, Tunnel!Connecting

LEMMA AloneIsStill == ASSUME Tunnel!TunnelConstants PROVE Tunnel!Alone <=> Still
  BY DEF Tunnel!Alone, Tunnel!Waiting, Still, Tunnel!TunnelConstants
LEMMA TaskTyped ==
    \A at \in Tunnel!Stages \cup Tunnel!Calls \cup {"captive", "tick"}, gen \in Nat,
       event \in Signals \cup {"none", Detected}, tunnel \in Nat :
          /\ Tunnel!Task(at, gen, event, tunnel) \in TaskSet
          /\ Tunnel!Task(at, gen, event, tunnel).at = at
          /\ Tunnel!Task(at, gen, event, tunnel).gen = gen
          /\ Tunnel!Task(at, gen, event, tunnel).event = event
          /\ Tunnel!Task(at, gen, event, tunnel).tunnel = tunnel
  BY DEF Tunnel!Task, TaskSet
\* Kinds of tasks are told apart.
LEMMA KindsAre ==
    /\ Tunnel!Stages = {"probe", "bootstrap", "open", "auth", "check"}
    /\ Tunnel!Calls = {"disconnect", "sleep", "network", "bearer"}
    /\ Tunnel!Stages \cap Tunnel!Calls = {}
    /\ \A x \in {"captive", "tick"} : x \notin Tunnel!Stages /\ x \notin Tunnel!Calls
  BY DEF Tunnel!Stages, Tunnel!Calls
LEMMA StatesAre ==
    /\ Tunnel!Up = {"ready", "degraded"}
    /\ Tunnel!Working = {"ssh_probing", "bootstrapping", "tunnel_connecting", "authenticating"}
    /\ Tunnel!Active = {"ssh_probing", "bootstrapping", "tunnel_connecting", "authenticating", "ready",
                        "degraded", "awaiting_network", "captive_portal_blocked", "reconnecting"}
    /\ Tunnel!States = Tunnel!Active \cup {"unconfigured", "disconnected"}
  BY DEF Tunnel!Up, Tunnel!Working, Tunnel!Connecting, Tunnel!Active, Tunnel!States, Tunnel!Paused

\* A pipeline begins where there is no tunnel, and overtakes the one before it.
LEMMA BeginKeepsLine ==
    ASSUME Tunnel!TunnelConstants, LineInv, NEW s \in Snapshots, Tunnel!Begin(s), profile' = TRUE, current = 0,
           s.state \in {"ssh_probing", "captive_portal_blocked"}, s.port \in {0, snapshot.port},
           \A t \in tasks : t.at \in Tunnel!Calls => Wild(t),
           UNCHANGED <<current, live, opened, accepted>>
    PROVE  LineInv'
<1> USE KindsAre, StatesAre
<1> DEFINE n == Tunnel!Task("probe", generation', "none", 0)
<1>1. /\ generation' = generation + 1 /\ generation' \in 0 .. MaxGeneration /\ timer' = FALSE
      /\ tasks' = tasks \cup {n} /\ Tunnel!Show(s)
  BY DEF Tunnel!Begin, Tunnel!Bump, LineInv, LineTypes, Tunnel!TunnelConstants
<1>2. n \in TaskSet /\ n.at = "probe" /\ n.gen = generation' /\ n.tunnel = 0
  <2>1. generation' \in Nat
    BY <1>1
  <2> QED
    BY <2>1 DEF Tunnel!Task, TaskSet
<1> HIDE DEF n
<1>3. s.port <= opened
  BY DEF LineInv, LineTypes
<1>4. /\ snapshot' = s /\ Beats' /\ heartbeat' \in [tunnel : Nat, armed : BOOLEAN, gen : Nat]
      /\ heartbeat'.tunnel <= opened /\ heartbeat'.tunnel = 0
  <2>1. \A t \in tasks' : t.at = "tick" => t \in tasks
    BY <1>1, <1>2
  <2> QED
    BY <1>1, <1>3, <2>1, ShowKeepsBeats DEF LineInv, LineTypes
<1>5. \A t \in tasks' : Mine(t)' => t = n
  BY <1>1, <1>2 DEF Mine, LineInv, LineTypes, TaskSet, OnePipeline
<1>6. LineTypes'
  <2>1. profile' \in BOOLEAN /\ timer' \in BOOLEAN
    BY <1>1, Zenon
  <2> QED
    BY <1>1, <1>2, <1>3, <1>4, <2>1 DEF LineInv, LineTypes
<1>7. OnePipeline'
  BY <1>1, <1>2, <1>5 DEF OnePipeline, LineInv, LineTypes, TaskSet
<1>8. Stands'
  BY <1>1, <1>4, <1>5 DEF Stands
<1>9. AtRest'
  BY <1>1, <1>2, <1>4 DEF AtRest, Mine, Doing
<1>10. \A t \in tasks' : Mine(t)' => At(t)'
  BY <1>1, <1>2, <1>4, <1>5 DEF At, Doing, Young
<1>11. \A t \in tasks' : Held(t)'
  BY <1>1, <1>2, <1>4 DEF Held, Wild, Detected
<1> QED
  BY <1>4, <1>6, <1>7, <1>8, <1>9, <1>10, <1>11 DEF LineInv

\* What a call shows once its tunnel is closed.
LEMMA AfterCloseIs ==
    ASSUME Tunnel!TunnelConstants, NEW s \in Snapshots, NEW at \in {"disconnect", "sleep", "network"},
           NEW event \in Signals \cup {"none", Detected},
           at = "network" => event # "none" /\ (s.state \in Tunnel!Listed(event)
                                                \/ (event = Detected /\ s.state \in Tunnel!Active))
    PROVE  LET d == Tunnel!AfterClose(s, at, event)
           IN /\ d \in Snapshots /\ d.port \in {0, s.port}
              /\ at # "network" => \/ d.state = "disconnected" /\ s.state \in Tunnel!Active
                                   \/ d.state = s.state /\ s.state \in {"unconfigured", "disconnected"}
              /\ at = "network" =>
                    /\ d.state \in {"reconnecting", "awaiting_network", "captive_portal_blocked"}
                    /\ d.state = "reconnecting" => d.retry
                    /\ event = Detected => d.state = "captive_portal_blocked"
<1> DEFINE d == Tunnel!AfterClose(s, at, event)
<1>1. CASE at = "network"
  <2>1. event \in NetworkEvents
    BY <1>1 DEF Tunnel!TunnelConstants, NetworkEvents, Detected
  <2>2. d = Tunnel!Dispatch(s, event, 0)
    BY <1>1 DEF Tunnel!AfterClose
  <2>3. /\ d \in Snapshots /\ d.port \in {0, s.port}
    BY <2>2, DispatchTyped
  <2>4. /\ Tunnel!Reconnect(s).state = "reconnecting" /\ Tunnel!Reconnect(s).retry
        /\ Tunnel!Pause(s, "awaiting_network").state = "awaiting_network"
        /\ Tunnel!Pause(s, "captive_portal_blocked").state = "captive_portal_blocked"
    BY DEF Tunnel!Reconnect, Tunnel!Pause, Snapshots
  <2>5. CASE event = Detected
    BY <1>1, <2>1, <2>2, <2>3, <2>4, <2>5, Hears, StatesAre
  <2>6. CASE event # Detected
    BY <1>1, <2>1, <2>2, <2>3, <2>4, <2>6, Hears
  <2> QED
    BY <2>5, <2>6
<1>2. CASE at # "network"
  <2>1. d \in {Tunnel!Dispatch(s, "user_disconnect", 0), Tunnel!Dispatch(s, "system_sleep", 0)}
    BY <1>2 DEF Tunnel!AfterClose
  <2>2. d \in Snapshots /\ d.port \in {0, s.port}
    BY <2>1, DispatchTyped
  <2>3. Tunnel!Pause(s, "disconnected").state = "disconnected" /\ [s EXCEPT !.state = "disconnected"].state = "disconnected"
    BY DEF Tunnel!Pause, Snapshots
  <2>4. s.state \in Tunnel!Active \/ s.state \in {"unconfigured", "disconnected"}
    BY StatesAre DEF Snapshots
  <2> QED
    BY <1>2, <2>1, <2>2, <2>3, <2>4, HangsUp
<1> QED
  BY <1>1, <1>2

LEMMA ClosingKeepsLine ==
    ASSUME Tunnel!TunnelConstants, LineInv, NEW at \in {"disconnect", "sleep", "network"},
           NEW event \in Signals \cup {"none"}, Tunnel!Closing(at, event),
           at = "network" => event # "none" /\ snapshot.state \in Tunnel!Listed(event)
    PROVE  LineInv'
<1> USE KindsAre, StatesAre
<1>1. /\ generation' = generation + 1 /\ generation' \in 0 .. MaxGeneration /\ generation' \in Nat
      /\ current' = 0 /\ live' = {} /\ Still
      /\ profile' = profile /\ opened' = opened /\ accepted' = accepted
  BY AloneIsStill DEF Tunnel!Closing, Tunnel!Bump, Tunnel!Close, LineInv, LineTypes, Tunnel!TunnelConstants
<1>2. CASE current # 0
  <2> DEFINE n == Tunnel!Task(at, generation', event, 0)
  <2>1. /\ tasks' = tasks \cup {n} /\ timer' = FALSE /\ snapshot' = snapshot
        /\ heartbeat' = [tunnel |-> 0, armed |-> FALSE, gen |-> heartbeat.gen + 1]
    BY <1>2 DEF Tunnel!Closing, Tunnel!TunnelConstants
  <2>2. n \in TaskSet /\ n.at = at /\ n.gen = generation' /\ n.tunnel = 0 /\ n.event = event
    BY <1>1 DEF Tunnel!Task, TaskSet
  <2> HIDE DEF n
  <2>3. \A t \in tasks' : ~Mine(t)'
    BY <1>1, <2>1, <2>2 DEF Mine, LineInv, LineTypes, TaskSet, OnePipeline
  <2>4. LineTypes'
    <3>1. timer' \in BOOLEAN
      BY <2>1, Zenon
    <3> QED
      BY <1>1, <2>1, <2>2, <3>1 DEF LineInv, LineTypes
  <2>5. Beats'
    BY <2>1, <2>2 DEF LineInv, LineTypes, Beats, TaskSet
  <2>6. OnePipeline'
    BY <1>1, <2>1, <2>2, <2>3 DEF OnePipeline, LineInv, LineTypes, TaskSet, Still
  <2>7. Stands'
    BY <1>1, <2>1, <2>3 DEF Stands, LineInv
  <2>8. AtRest'
    BY <2>1, <2>2 DEF AtRest, Still
  <2>9. snapshot.state \in Tunnel!Active
    BY <1>2 DEF LineInv, LineTypes, Stands, Snapshots
  <2>10. \A t \in tasks' : Held(t)'
    BY <1>1, <2>1, <2>2, <2>3, <2>9 DEF Held, Still
  <2> QED
    BY <2>3, <2>4, <2>5, <2>6, <2>7, <2>8, <2>10 DEF LineInv
<1>3. CASE current = 0
  <2> DEFINE s == Tunnel!AfterClose(snapshot, at, event)
  <2>1. /\ tasks' = tasks /\ Tunnel!Show(s)
        /\ timer' = (at = "network" /\ Tunnel!TriesAgain(snapshot'))
    BY <1>3 DEF Tunnel!Closing
  <2>2. /\ s \in Snapshots /\ s.port \in {0, snapshot.port}
        /\ s.state \in {"unconfigured", "disconnected", "reconnecting", "awaiting_network",
                        "captive_portal_blocked"}
        /\ s.state = "unconfigured" <=> snapshot.state = "unconfigured"
        /\ s.state = "reconnecting" => s.retry /\ at = "network"
    <3>1. at = "network" => snapshot.state \in Tunnel!Active
      <4>1. at = "network" => event \in NetworkEvents
        BY DEF Tunnel!TunnelConstants, NetworkEvents
      <4> QED
        BY <4>1, Hears DEF LineInv, LineTypes
    <3> QED
      BY <3>1, AfterCloseIs DEF LineInv, LineTypes
  <2> HIDE DEF s
  <2>3. /\ snapshot' = s /\ Beats' /\ heartbeat' \in [tunnel : Nat, armed : BOOLEAN, gen : Nat]
        /\ heartbeat'.tunnel <= opened
    <3>1. s.port <= opened
      BY <2>2 DEF LineInv, LineTypes
    <3> QED
      BY <2>1, <2>2, <3>1, ShowKeepsBeats DEF LineInv, LineTypes
  <2>4. \A t \in tasks' : ~Mine(t)'
    BY <1>1, <2>1 DEF Mine, LineInv, LineTypes, TaskSet, OnePipeline
  <2>5. timer' \in BOOLEAN /\ (timer' => s.state = "reconnecting") /\ (s.state = "reconnecting" => timer')
    <3>1. s.state = "reconnecting" => profile
      BY <2>2 DEF LineInv, Stands
    <3> QED
      BY <2>1, <2>2, <2>3, <3>1 DEF Tunnel!TriesAgain
  <2>6. LineTypes'
    BY <1>1, <2>1, <2>2, <2>3, <2>5 DEF LineInv, LineTypes
  <2>7. OnePipeline'
    BY <1>1, <2>1, <2>4 DEF OnePipeline, LineInv, LineTypes, TaskSet, Still
  <2>8. Stands'
    <3>1. snapshot' = s /\ (timer' => s.state = "reconnecting")
      BY <2>3, <2>5
    <3>2. s.state # "unconfigured" => profile'
      BY <1>1, <2>2, <2>5 DEF Stands, LineInv
    <3> QED
      BY <1>1, <2>2, <2>4, <3>1, <3>2 DEF Stands
  <2>9. AtRest'
    BY <1>1, <2>1, <2>2, <2>3, <2>5 DEF AtRest, Still
  <2>10. \A t \in tasks' : Held(t)'
    BY <1>1, <2>1 DEF Held, Still, Wild
  <2> QED
    BY <2>3, <2>4, <2>6, <2>7, <2>8, <2>9, <2>10 DEF LineInv
<1> QED
  BY <1>2, <1>3 DEF LineInv, LineTypes

LEMMA ClosedKeepsLine ==
    ASSUME Tunnel!TunnelConstants, LineInv, NEW t \in tasks, Tunnel!Closed(t)
    PROVE  LineInv'
<1> USE KindsAre, StatesAre
<1> DEFINE s == Tunnel!AfterClose(snapshot, t.at, t.event)
<1>1. /\ t.at \in {"disconnect", "sleep", "network"} /\ Tunnel!Show(s) /\ tasks' = tasks \ {t}
      /\ timer' = IF t.at = "network" /\ Tunnel!TriesAgain(snapshot') THEN TRUE ELSE timer
      /\ profile' = profile /\ current' = current /\ generation' = generation
      /\ live' = live /\ opened' = opened /\ accepted' = accepted
  BY DEF Tunnel!Closed, Tunnel!Connected
<1>2. t \in TaskSet /\ Held(t)
  BY DEF LineInv, LineTypes
<1>3. /\ t.event \in Signals \cup {"none", Detected}
      /\ t.at = "network" => t.event # "none" /\ (snapshot.state \in Tunnel!Listed(t.event)
                                                  \/ (t.event = Detected /\ snapshot.state \in Tunnel!Active))
  <2>1. t.event \in Signals \cup {"none", Detected}
    BY <1>2 DEF TaskSet
  <2>2. t.at = "network" /\ t.event # Detected => snapshot.state \in Tunnel!Listed(t.event)
    BY <1>2 DEF Held, Wild
  <2>3. t.at = "network" /\ t.event = Detected => snapshot.state \in Tunnel!Active
    BY <1>2 DEF Held, Wild
  <2>4. t.at = "network" => t.event # "none"
    BY <1>2 DEF Held
  <2> QED
    BY <2>1, <2>2, <2>3, <2>4 DEF Detected
<1>4. /\ s \in Snapshots /\ s.port \in {0, snapshot.port}
      /\ s.state \in {"unconfigured", "disconnected", "reconnecting", "awaiting_network",
                      "captive_portal_blocked"}
      /\ s.state = "unconfigured" <=> snapshot.state = "unconfigured"
      /\ s.state = "reconnecting" => s.retry /\ t.at = "network"
      /\ Wild(t) => s.state = "captive_portal_blocked"
  <2>1. t.at = "network" => snapshot.state \in Tunnel!Active
    <3>1. t.at = "network" => t.event \in NetworkEvents
      BY <1>3 DEF Tunnel!TunnelConstants, NetworkEvents, Detected
    <3> QED
      BY <1>3, <3>1, Hears DEF LineInv, LineTypes
  <2>2. snapshot \in Snapshots /\ t.at \in {"disconnect", "sleep", "network"}
    BY <1>1 DEF LineInv, LineTypes
  <2> QED
    BY <1>3, <2>1, <2>2, AfterCloseIs DEF Wild
<1> HIDE DEF s
<1>5. /\ snapshot' = s /\ Beats' /\ heartbeat' \in [tunnel : Nat, armed : BOOLEAN, gen : Nat]
      /\ heartbeat'.tunnel <= opened /\ heartbeat'.tunnel = 0
  <2>1. s.port <= opened
    BY <1>4 DEF LineInv, LineTypes
  <2>2. \A u \in tasks' : u.at = "tick" => u \in tasks
    BY <1>1
  <2> QED
    BY <1>1, <1>4, <2>1, <2>2, ShowKeepsBeats DEF LineInv, LineTypes
<1>6. \A u \in tasks' : u.at \notin Tunnel!Calls
  BY <1>1 DEF LineInv, OnePipeline
<1>7. OnePipeline'
  BY <1>1 DEF LineInv, OnePipeline, Mine
<1>8. CASE Wild(t)
  <2>1. timer' = timer /\ s.state = "captive_portal_blocked"
    BY <1>1, <1>4, <1>5, <1>8 DEF Tunnel!TriesAgain
  <2>2. LineTypes'
    BY <1>1, <1>4, <1>5, <2>1 DEF LineInv, LineTypes
  <2>3. Stands'
    <3>1. Stands
      BY DEF LineInv
    <3>2. timer' => current' = 0 /\ \A u \in tasks' : Mine(u)' => ~Young(u)
      BY <1>1, <2>1, <3>1 DEF Stands, Mine
    <3>3. profile'
      BY <1>1, <1>4, <2>1, <3>1 DEF Stands
    <3> QED
      BY <1>5, <2>1, <3>2, <3>3 DEF Stands, Young
  <2>4. AtRest'
    BY <1>1, <1>5, <2>1 DEF AtRest
  <2>5. \A u \in tasks' : Mine(u)' => At(u)'
    BY <1>1, <1>5, <2>1 DEF LineInv, At, Mine
  <2>6. \A u \in tasks' : Held(u)'
    BY <1>6 DEF Held, Wild
  <2> QED
    BY <1>5, <1>7, <2>2, <2>3, <2>4, <2>5, <2>6 DEF LineInv
<1>9. CASE ~Wild(t)
  <2>1. current = 0 /\ ~timer /\ \A u \in tasks : ~Mine(u)
    BY <1>1, <1>2, <1>9 DEF Held
  <2>2. \A u \in tasks' : ~Mine(u)'
    BY <1>1, <2>1 DEF Mine
  <2>3. timer' \in BOOLEAN /\ (timer' => s.state = "reconnecting") /\ (s.state = "reconnecting" => timer')
    <3>1. s.state = "reconnecting" => profile
      BY <1>4 DEF LineInv, Stands
    <3>2. CASE s.state = "reconnecting"
      <4>1. Tunnel!TriesAgain(snapshot') /\ t.at = "network"
        BY <1>4, <1>5, <3>1, <3>2 DEF Tunnel!TriesAgain
      <4>2. timer' = TRUE
        BY <1>1, <4>1
      <4> QED
        BY <3>2, <4>2
    <3>3. CASE s.state # "reconnecting"
      <4>1. ~Tunnel!TriesAgain(snapshot')
        BY <1>5, <3>3 DEF Tunnel!TriesAgain
      <4>2. timer' = timer /\ timer \in BOOLEAN
        BY <1>1, <4>1 DEF LineInv, LineTypes
      <4> QED
        BY <2>1, <3>3, <4>2
    <3> QED
      BY <3>2, <3>3
  <2>4. LineTypes'
    BY <1>1, <1>4, <1>5, <2>3 DEF LineInv, LineTypes
  <2>5. Stands'
    <3>1. snapshot' = s /\ (timer' => s.state = "reconnecting") /\ current' = 0
      BY <1>1, <1>5, <2>1, <2>3
    <3>2. s.state # "unconfigured" => profile'
      BY <1>1, <1>4 DEF Stands, LineInv
    <3> QED
      BY <1>4, <2>2, <3>1, <3>2 DEF Stands
  <2>6. AtRest'
    BY <1>4, <1>5, <2>3 DEF AtRest
  <2>7. \A u \in tasks' : Held(u)'
    BY <1>6 DEF Held, Wild
  <2> QED
    BY <1>5, <1>7, <2>2, <2>4, <2>5, <2>6, <2>7 DEF LineInv
<1> QED
  BY <1>8, <1>9

\* A tunnel that is given up is tried again.
LEMMA GivesUp ==
    ASSUME Tunnel!TunnelConstants, LineInv, NEW s \in Snapshots, Tunnel!Show(s),
           s.state = "reconnecting", s.retry, s.port \in {0, snapshot.port}, profile,
           current' = 0, live' = {}, timer' \in BOOLEAN,
           timer' \/ \E u \in tasks' : u.at = "captive",
           \A u \in tasks' : u \in tasks \/ (u \in TaskSet /\ u.at = "captive" /\ u.gen <= generation /\ u.tunnel = 0),
           \A u \in tasks' : Mine(u) => ~Young(u),
           \A u \in tasks : u.at \in Tunnel!Calls => Wild(u),
           UNCHANGED <<profile, generation, opened, accepted>>
    PROVE  LineInv'
<1> USE KindsAre, StatesAre
<1>1. /\ snapshot' = s /\ Beats' /\ heartbeat' \in [tunnel : Nat, armed : BOOLEAN, gen : Nat]
      /\ heartbeat'.tunnel <= opened /\ heartbeat'.tunnel = 0
  <2>1. s.port <= opened
    BY DEF LineInv, LineTypes
  <2>2. \A u \in tasks' : u.at = "tick" => u \in tasks
    OBVIOUS
  <2> QED
    BY <2>1, <2>2, ShowKeepsBeats DEF LineInv, LineTypes
<1>2. \A u \in tasks' : u \in tasks \/ u.at = "captive"
  OBVIOUS
<1>3. LineTypes'
  <2>1. \A u \in tasks' : u \in TaskSet /\ u.tunnel <= opened
    BY DEF LineInv, LineTypes
  <2>2. s.port <= opened
    BY DEF LineInv, LineTypes
  <2> QED
    BY <1>1, <2>1, <2>2 DEF LineInv, LineTypes
<1>4. OnePipeline'
  <2>1. OnePipeline
    BY DEF LineInv
  <2> QED
    BY <1>2, <2>1 DEF OnePipeline, Mine
<1>5. Stands'
  BY <1>1 DEF Stands, Mine, Young
<1>6. AtRest'
  BY <1>1 DEF AtRest
<1>7. \A u \in tasks' : Mine(u)' => At(u)'
  <2>1. \A u \in tasks : Mine(u) => At(u)
    BY DEF LineInv
  <2> QED
    BY <1>1, <1>2, <2>1 DEF Mine, At, Young
<1>8. \A u \in tasks' : Held(u)'
  BY <1>1, <1>2 DEF Held, Wild, Detected
<1> QED
  BY <1>1, <1>3, <1>4, <1>5, <1>6, <1>7, <1>8 DEF LineInv

\* With less to do, and perhaps without a tunnel, the rest stands.
LEMMA LessToDo ==
    ASSUME Tunnel!TunnelConstants, LineInv, tasks' \subseteq tasks,
           snapshot' \in Snapshots, snapshot'.state = snapshot.state,
           snapshot'.retry = snapshot.retry, snapshot'.port = snapshot.port,
           Beats', heartbeat' \in [tunnel : Nat, armed : BOOLEAN, gen : Nat],
           heartbeat'.tunnel = heartbeat.tunnel,
           \/ current' = current
           \/ current' = 0 /\ \A u \in tasks : u.at # "bearer",
           live' = {current'} \ {0}, opened' \in Nat, opened <= opened',
           accepted \subseteq accepted', accepted' \subseteq 1 .. opened',
           AtRest', UNCHANGED <<profile, timer, generation>>
    PROVE  LineInv'
<1> USE KindsAre, StatesAre
<1>1. LineTypes'
  BY DEF LineInv, LineTypes, TaskSet, Snapshots
<1>2. OnePipeline'
  <2>1. OnePipeline
    BY DEF LineInv
  <2> QED
    BY <2>1 DEF OnePipeline, Mine
<1>3. Stands'
  <2>1. Stands
    BY DEF LineInv
  <2>2. current' \in {0, current}
    OBVIOUS
  <2> QED
    BY <2>1, <2>2 DEF Stands, Mine, Young
<1>4. \A u \in tasks' : Mine(u)' => At(u)'
  <2>1. \A u \in tasks : Mine(u) => At(u)
    BY DEF LineInv
  <2>2. current' \in {0, current}
    OBVIOUS
  <2> QED
    BY <2>1, <2>2 DEF Mine, At, Doing, Young
<1>5. \A u \in tasks' : Held(u)'
  <2>1. \A u \in tasks : Held(u)
    BY DEF LineInv
  <2> TAKE u \in tasks'
  <2>2. Held(u) /\ u \in tasks
    BY <2>1
  <2>3. \A v \in tasks' : Mine(v)' => Mine(v) /\ v \in tasks
    BY DEF Mine
  <2>4. current' = 0 \/ current' = current
    OBVIOUS
  <2> QED
    BY <2>2, <2>3, <2>4 DEF Held, Wild
<1> QED
  BY <1>1, <1>2, <1>3, <1>4, <1>5 DEF LineInv

\* While a pipeline is current, of the calls only one that has found a captive portal waits.
LEMMA CallsOfPipeline ==
    ASSUME LineInv, NEW t \in tasks, Mine(t)
    PROVE  /\ t.at # "check" => \A u \in tasks : u.at \in Tunnel!Calls => Wild(u)
           /\ \A u \in tasks : u.at \in Tunnel!Calls => Wild(u) \/ u.at = "bearer"
<1>1. \A u \in tasks : Held(u)
  BY DEF LineInv
<1> QED
  BY <1>1, KindsAre DEF Held

LEMMA FailsKeepsLine ==
    ASSUME Tunnel!TunnelConstants, LineInv, NEW t \in tasks, Mine(t), t.at \in {"probe", "bootstrap", "open", "auth"},
           Tunnel!Fails(t), UNCHANGED <<profile, current, generation, live, opened, accepted>>
    PROVE  LineInv'
<1> USE KindsAre, StatesAre
<1> DEFINE s == Tunnel!Dispatch(snapshot, Tunnel!Failure(snapshot.state), 0)
           n == Tunnel!Task("captive", t.gen, "none", 0)
<1>1. Tunnel!Show(s) /\ snapshot' = s
  BY DEF Tunnel!Fails, Tunnel!Show
<1>2. snapshot \in Snapshots /\ s \in Snapshots /\ s.port \in {0, snapshot.port}
  BY DispatchTyped DEF LineInv, LineTypes
<1>3. At(t) /\ Stands /\ t.gen = generation /\ t \in TaskSet
  BY DEF LineInv, LineTypes, Mine
<1>4. n \in TaskSet /\ n.at = "captive" /\ n.gen = generation /\ n.tunnel = 0
  BY <1>3 DEF Tunnel!Task, TaskSet
<1>5. \A u \in tasks : u.at \in Tunnel!Calls => Wild(u)
  BY CallsOfPipeline
<1>6. \A u \in tasks \ {t} : ~Mine(u)
  BY DEF LineInv, OnePipeline
<1>rejected. snapshot.state = "authenticating" => s = [snapshot EXCEPT !.fault = "auth_rejected"]
  BY <1>2, Advances DEF Tunnel!Failure
<1>7. CASE s.state = "reconnecting"
  <2>1. s.retry /\ current = 0 /\ profile
    <3>1. CASE snapshot.state = "reconnecting"
      <4>1. s = snapshot
        BY <1>2, <3>1, FallsBack DEF Tunnel!Failure
      <4> QED
        BY <1>3, <3>1, <4>1 DEF Stands
    <3>2. CASE snapshot.state # "reconnecting"
      <4>1. s # snapshot
        BY <1>7, <3>2
      <4>2. snapshot.state \in {"ssh_probing", "bootstrapping", "tunnel_connecting"}
        <5>2. snapshot.state = "authenticating" => s.state = "authenticating"
          BY <1>2, <1>rejected DEF Snapshots
        <5>3. snapshot.state = "captive_portal_blocked" => s = snapshot
          BY <1>2, FallsBack DEF Tunnel!Failure
        <5> QED
          BY <1>3, <1>7, <3>2, <4>1, <5>2, <5>3 DEF At, Doing
      <4>3. s = Tunnel!Reconnect(snapshot)
        BY <1>2, <4>2, FallsBack DEF Tunnel!Failure
      <4>4. Young(t)
        BY <1>3, <4>2 DEF At, Doing, Young
      <4> QED
        BY <1>3, <4>2, <4>3, <4>4 DEF At, Stands, Tunnel!Reconnect
    <3> QED
      BY <3>1, <3>2
  <2>2. /\ timer' \in BOOLEAN /\ (timer' \/ \E u \in tasks' : u.at = "captive")
        /\ tasks' \subseteq (tasks \ {t}) \cup {n}
    <3>1. CASE tasks' = (tasks \ {t}) \cup {n} /\ timer' = timer
      BY <1>4, <3>1 DEF LineInv, LineTypes
    <3>2. CASE tasks' = tasks \ {t} /\ timer' = (timer \/ Tunnel!TriesAgain(snapshot'))
      <4>1. Tunnel!TriesAgain(snapshot')
        BY <1>1, <1>7, <2>1 DEF Tunnel!TriesAgain
      <4>2. timer' = TRUE
        BY <3>2, <4>1, Zenon
      <4> QED
        BY <3>2, <4>2
    <3> QED
      BY <3>1, <3>2 DEF Tunnel!Fails, Tunnel!Ends
  <2> HIDE DEF s, n
  <2>3. \A u \in tasks' : Mine(u) => ~Young(u)
    BY <1>4, <1>6, <2>2 DEF Mine
  <2>4. live = {} /\ live' = {} /\ current' = 0
    BY <2>1 DEF LineInv, LineTypes
  <2>5. \A u \in tasks' : u \in tasks \/ (u \in TaskSet /\ u.at = "captive" /\ u.gen <= generation /\ u.tunnel = 0)
    BY <1>4, <2>2 DEF LineInv, LineTypes
  <2> QED
    BY <1>1, <1>2, <1>5, <1>7, <2>1, <2>2, <2>3, <2>4, <2>5, GivesUp
<1>8. CASE s.state # "reconnecting"
  <2>1. /\ s.state = snapshot.state /\ s.retry = snapshot.retry /\ s.port = snapshot.port
        /\ s.state \in {"authenticating", "captive_portal_blocked"}
        /\ s.state = "authenticating" => s.fault = "auth_rejected"
    <3>1. snapshot.state \in {"ssh_probing", "bootstrapping", "tunnel_connecting"} => s = Tunnel!Reconnect(snapshot)
      BY <1>2, FallsBack DEF Tunnel!Failure
    <3>2. snapshot.state = "authenticating" => s = [snapshot EXCEPT !.fault = "auth_rejected"]
      BY <1>rejected
    <3>3. snapshot.state \in {"reconnecting", "captive_portal_blocked"} => s = snapshot
      BY <1>2, FallsBack DEF Tunnel!Failure
    <3>4. Tunnel!Reconnect(snapshot).state = "reconnecting"
      BY DEF Tunnel!Reconnect
    <3>5. snapshot.state \in {"ssh_probing", "bootstrapping", "tunnel_connecting", "authenticating",
                              "reconnecting", "captive_portal_blocked"}
      BY <1>3 DEF At, Doing
    <3> HIDE DEF s
    <3> QED
      BY <1>2, <1>8, <3>1, <3>2, <3>3, <3>4, <3>5 DEF Snapshots
  <2>2. tasks' = tasks \ {t} /\ timer' = timer
    <3>1. ~Tunnel!TriesAgain(snapshot')
      BY <1>1, <1>8 DEF Tunnel!TriesAgain
    <3>2. tasks' = tasks \ {t} /\ timer' = (timer \/ Tunnel!TriesAgain(snapshot'))
      BY <1>1, <1>8 DEF Tunnel!Fails, Tunnel!Ends
    <3>3. timer \in BOOLEAN
      BY DEF LineInv, LineTypes
    <3> QED
      BY <3>1, <3>2, <3>3, Zenon
  <2> HIDE DEF s
  <2>3. /\ Beats' /\ heartbeat' \in [tunnel : Nat, armed : BOOLEAN, gen : Nat]
        /\ heartbeat'.tunnel = heartbeat.tunnel
    <3>1. s.port <= opened
      BY <2>1 DEF LineInv, LineTypes
    <3>2. Beats' /\ heartbeat' \in [tunnel : Nat, armed : BOOLEAN, gen : Nat] /\ heartbeat'.tunnel = 0
      BY <1>1, <1>2, <2>1, <2>2, <3>1, ShowKeepsBeats DEF LineInv, LineTypes
    <3>3. heartbeat.tunnel = 0
      BY <2>1 DEF LineInv, Beats
    <3> QED
      BY <3>2, <3>3
  <2>4. AtRest'
    BY <1>1, <2>1 DEF AtRest
  <2>5. live' = {current'} \ {0} /\ opened' \in Nat /\ opened <= opened' /\ accepted' \subseteq 1 .. opened'
    BY DEF LineInv, LineTypes
  <2> QED
    BY <1>1, <1>2, <2>1, <2>2, <2>3, <2>4, <2>5, LessToDo
<1> QED
  BY <1>7, <1>8

\* A pipeline that is current and has had its answer goes on.
LEMMA GoesOn ==
    ASSUME Tunnel!TunnelConstants, LineInv, NEW t \in tasks, Mine(t),
           t.at \in {"probe", "bootstrap", "open", "auth"},
           NEW n \in TaskSet, n.at = Tunnel!After(t.at), n.gen = t.gen, tasks' = (tasks \ {t}) \cup {n},
           Tunnel!Show(Tunnel!Dispatch(snapshot, Tunnel!Success(t.at), n.tunnel)),
           IF t.at = "open"
           THEN opened' = opened + 1 /\ current' = opened' /\ n.tunnel = opened' /\ live' = live \cup {opened'}
           ELSE UNCHANGED <<current, opened, live>> /\ n.tunnel = t.tunnel,
           IF t.at = "auth" THEN t.tunnel \in live /\ accepted' = accepted \cup {t.tunnel}
           ELSE accepted' = accepted,
           UNCHANGED <<profile, timer, generation>>
    PROVE  LineInv'
<1>moves. /\ Tunnel!Dispatch(snapshot, "ssh_probe_succeeded", n.tunnel) =
                IF snapshot.state = "ssh_probing" THEN [snapshot EXCEPT !.state = "bootstrapping"] ELSE snapshot
          /\ Tunnel!Dispatch(snapshot, "bootstrap_succeeded", n.tunnel) =
                IF snapshot.state = "bootstrapping" THEN [snapshot EXCEPT !.state = "tunnel_connecting"] ELSE snapshot
          /\ Tunnel!Dispatch(snapshot, "tunnel_opened", n.tunnel) =
                IF snapshot.state = "tunnel_connecting" THEN [snapshot EXCEPT !.state = "authenticating"] ELSE snapshot
          /\ Tunnel!Dispatch(snapshot, "auth_succeeded", n.tunnel) =
                IF snapshot.state = "authenticating"
                THEN [Tunnel!Fresh EXCEPT !.state = "ready", !.port = n.tunnel] ELSE snapshot
  <2>1. n.tunnel \in Nat /\ snapshot \in Snapshots
    BY DEF LineInv, LineTypes, TaskSet
  <2> QED
    BY <2>1, Advances, Zenon
<1> DEFINE s == Tunnel!Dispatch(snapshot, Tunnel!Success(t.at), n.tunnel)
<1>1. n.tunnel \in Nat /\ t \in TaskSet /\ snapshot \in Snapshots /\ opened \in Nat
  BY DEF LineInv, LineTypes, TaskSet
<1>2. s \in Snapshots /\ s.port \in {0, snapshot.port, n.tunnel} /\ snapshot' = s
  BY <1>1, DispatchTyped DEF Tunnel!Show
<1>3. At(t) /\ Stands /\ t.gen = generation /\ Beats
  BY DEF LineInv, Mine
<1>4. \A u \in tasks : u.at \in Tunnel!Calls => Wild(u)
  BY CallsOfPipeline
<1>5. \A u \in tasks \ {t} : ~Mine(u)
  BY DEF LineInv, OnePipeline
<1>6. t.at = "auth" => current = t.tunnel /\ current # 0
  BY DEF LineInv, LineTypes
<1>7. ~timer
  BY <1>3, <1>6 DEF Stands, Mine, Young
<1>8. snapshot.state = "captive_portal_blocked" \/ Doing(t)
  BY <1>3, <1>6 DEF At, Stands
<1>named. /\ t.at = "probe" => s = Tunnel!Dispatch(snapshot, "ssh_probe_succeeded", n.tunnel)
          /\ t.at = "bootstrap" => s = Tunnel!Dispatch(snapshot, "bootstrap_succeeded", n.tunnel)
          /\ t.at = "open" => s = Tunnel!Dispatch(snapshot, "tunnel_opened", n.tunnel)
          /\ t.at = "auth" => s = Tunnel!Dispatch(snapshot, "auth_succeeded", n.tunnel)
  BY DEF Tunnel!Success
<1> HIDE DEF s
<1>9. snapshot.state # "captive_portal_blocked" =>
        CASE t.at = "probe" -> s.state = "bootstrapping"
          [] t.at = "bootstrap" -> s.state = "tunnel_connecting"
          [] t.at = "open" -> s.state = "authenticating"
          [] t.at = "auth" -> s.state = "ready" /\ s.port = n.tunnel
  <2>1. t.at = "probe" /\ snapshot.state = "ssh_probing" => s = [snapshot EXCEPT !.state = "bootstrapping"]
    BY <1>1, <1>named, <1>moves
  <2>2. t.at = "bootstrap" /\ snapshot.state = "bootstrapping" => s = [snapshot EXCEPT !.state = "tunnel_connecting"]
    BY <1>1, <1>named, <1>moves
  <2>3. t.at = "open" /\ snapshot.state = "tunnel_connecting" => s = [snapshot EXCEPT !.state = "authenticating"]
    BY <1>1, <1>named, <1>moves
  <2>4. t.at = "auth" /\ snapshot.state = "authenticating" =>
            s = [Tunnel!Fresh EXCEPT !.state = "ready", !.port = n.tunnel]
    BY <1>1, <1>named, <1>moves
  <2>5. [Tunnel!Fresh EXCEPT !.state = "ready", !.port = n.tunnel].state = "ready"
        /\ [Tunnel!Fresh EXCEPT !.state = "ready", !.port = n.tunnel].port = n.tunnel
    BY DEF Tunnel!Fresh
  <2>6. \A x \in {"bootstrapping", "tunnel_connecting", "authenticating"} : [snapshot EXCEPT !.state = x].state = x
    BY <1>1 DEF Snapshots
  <2> QED
    BY <1>8, <2>1, <2>2, <2>3, <2>4, <2>5, <2>6 DEF Doing
<1>10. snapshot.state = "captive_portal_blocked" => s = snapshot
  BY <1>1, <1>named, <1>moves
<1>11. n.at = CASE t.at = "probe" -> "bootstrap" [] t.at = "bootstrap" -> "open"
                [] t.at = "open" -> "auth" [] t.at = "auth" -> "check"
  BY DEF Tunnel!After
<1>12. /\ s.state \in {"bootstrapping", "tunnel_connecting", "authenticating", "ready", "captive_portal_blocked"}
       /\ s.state = "ready" => s.port = current /\ current = n.tunnel /\ t.at = "auth"
  BY <1>6, <1>8, <1>9, <1>10
<1>13. current' \in 0 .. opened' /\ opened' \in Nat /\ opened <= opened' /\ live' = {current'} \ {0}
       /\ n.tunnel <= opened' /\ accepted' \subseteq 1 .. opened' /\ s.port <= opened
  <2>1. t.at = "open" => current = 0
    BY <1>3 DEF At, Young
  <2>2. s.port <= opened
    <3>1. CASE s.state = "ready"
      BY <1>12, <3>1 DEF LineInv, LineTypes
    <3>2. CASE s.state # "ready"
      <4>1. t.at = "auth" => s.port \in {0, snapshot.port}
        BY <1>8, <1>9, <1>10, <3>2 DEF Doing
      <4>2. /\ t.at = "probe" => s \in {snapshot, [snapshot EXCEPT !.state = "bootstrapping"]}
            /\ t.at = "bootstrap" => s \in {snapshot, [snapshot EXCEPT !.state = "tunnel_connecting"]}
            /\ t.at = "open" => s \in {snapshot, [snapshot EXCEPT !.state = "authenticating"]}
        BY <1>1, <1>named, <1>moves
      <4>3. \A x \in {"bootstrapping", "tunnel_connecting", "authenticating"} : [snapshot EXCEPT !.state = x].port = snapshot.port
        BY <1>1 DEF Snapshots
      <4>4. s.port \in {0, snapshot.port}
        BY <4>1, <4>2, <4>3
      <4> QED
        BY <4>4 DEF LineInv, LineTypes, Snapshots
    <3> QED
      BY <3>1, <3>2
  <2>3. current \in 0 .. opened /\ live = {current} \ {0} /\ accepted \subseteq 1 .. opened /\ t.tunnel <= opened
    BY DEF LineInv, LineTypes
  <2>4. CASE t.at = "open"
    <3>1. current' = opened + 1 /\ opened' = opened + 1 /\ n.tunnel = opened + 1
      BY <2>4
    <3>2. live' = {opened + 1}
      BY <2>1, <2>3, <2>4
    <3>3. accepted' = accepted
      BY <2>4
    <3> QED
      BY <1>1, <2>2, <2>3, <3>1, <3>2, <3>3
  <2>5. CASE t.at # "open"
    <3>1. current' = current /\ opened' = opened /\ live' = live /\ n.tunnel = t.tunnel
      BY <2>5
    <3>2. accepted' \subseteq accepted \cup {t.tunnel} /\ (t.at # "auth" => accepted' = accepted)
      BY Zenon
    <3>3. accepted' \subseteq 1 .. opened
      BY <1>1, <1>6, <2>3, <3>2
    <3> QED
      BY <1>1, <2>2, <2>3, <3>1, <3>3
  <2> QED
    BY <2>4, <2>5
<1>14. /\ Beats' /\ heartbeat' \in [tunnel : Nat, armed : BOOLEAN, gen : Nat]
       /\ heartbeat'.tunnel <= opened
  <2>1. \A u \in tasks' : u.at = "tick" => u \in tasks
    BY <1>11
  <2>2. snapshot.state # "ready"
    BY <1>8 DEF Doing
  <2> QED
    BY <1>2, <1>6, <1>12, <1>13, <2>1, <2>2, ShowKeepsBeats DEF LineInv, LineTypes, s
<1>15. \A u \in tasks' : Mine(u)' => u = n
  BY <1>5 DEF Mine
<1> USE KindsAre, StatesAre
<1>16. LineTypes'
  BY <1>2, <1>13, <1>14 DEF LineInv, LineTypes, Snapshots, TaskSet
<1>17. OnePipeline'
  <2>1. OnePipeline /\ n.at \notin Tunnel!Calls /\ n.gen <= generation
    BY <1>3, <1>11 DEF LineInv, LineTypes
  <2> QED
    BY <1>15, <2>1 DEF OnePipeline, Mine
<1>18. Stands'
  <2>1. profile
    BY <1>3, <1>8 DEF Stands, Doing
  <2>2. s.state = "ready" => s.port = current' /\ current' \in accepted'
    BY <1>6, <1>12
  <2> QED
    BY <1>2, <1>7, <1>12, <2>1, <2>2 DEF Stands
<1>19. Mine(n)' /\ (snapshot.state # "captive_portal_blocked" => Doing(n)' \/ s.state = "ready")
  BY <1>2, <1>3, <1>9, <1>11 DEF Mine, Doing
<1>20. AtRest'
  BY <1>2, <1>6, <1>10, <1>12, <1>19 DEF AtRest
<1>21. At(n)'
  <2>1. Young(n) => current' = 0
    BY <1>3, <1>11 DEF At, Young
  <2>2. ~Young(n) => n.tunnel # 0 /\ current' = n.tunnel
    BY <1>1, <1>6, <1>11 DEF Young
  <2> QED
    BY <1>2, <1>10, <1>11, <1>12, <1>19, <2>1, <2>2 DEF At, Young
<1>22. \A u \in tasks' : Held(u)'
  BY <1>2, <1>4, <1>11, <1>12 DEF Held, Wild, Detected
<1> QED
  BY <1>14, <1>15, <1>16, <1>17, <1>18, <1>20, <1>21, <1>22 DEF LineInv

\* Nothing else changes: the rest at ease stays so.
LEMMA RestLeft ==
    ASSUME LineInv, NEW t \in tasks, tasks' = tasks \ {t}, t.at \notin Tunnel!Calls, ~Mine(t),
           t.at = "captive" => snapshot.state # "reconnecting" \/ timer,
           snapshot' = snapshot, timer' = timer, generation' = generation, current' = current
    PROVE  AtRest'
<1>1. AtRest
  BY DEF LineInv
<1>2. Still' => Still
  BY DEF Still
<1>3. \A u \in tasks : Mine(u) => u \in tasks' /\ Mine(u)'
  BY DEF Mine
<1> QED
  BY <1>1, <1>2, <1>3 DEF AtRest, Doing

LEMMA CallsBegin ==
    ASSUME Tunnel!TunnelConstants, LineInv,
           Tunnel!Connect \/ Tunnel!HandleSystemWake \/ Tunnel!TimerFires
    PROVE  LineInv'
<1> USE KindsAre, StatesAre
<1>0. snapshot \in Snapshots /\ Stands /\ \A u \in tasks : Held(u)
  BY DEF LineInv, LineTypes
<1>1. CASE Tunnel!Connect
  <2> DEFINE s == Tunnel!Dispatch(snapshot, "profile_set", 0)
  <2>1. /\ Still /\ snapshot.state \in {"unconfigured", "disconnected"} /\ profile' = TRUE
        /\ Tunnel!Begin(s) /\ UNCHANGED <<current, live, opened, accepted>>
    BY <1>1, AloneIsStill DEF Tunnel!Connect, Tunnel!Connected, Tunnel!TunnelConstants
  <2>2. s \in Snapshots /\ s.port \in {0, snapshot.port}
    BY <1>0, DispatchTyped
  <2>3. s.state = "ssh_probing"
    BY <1>0, <2>1, SetsOut
  <2>4. current = 0
    BY <1>0, <2>1 DEF Stands
  <2> HIDE DEF s
  <2> QED
    BY <2>1, <2>2, <2>3, <2>4, BeginKeepsLine DEF Still
<1>2. CASE Tunnel!HandleSystemWake
  <2> DEFINE w == Tunnel!Dispatch(snapshot, "system_wake", 0)
             s == Tunnel!Dispatch(w, "profile_set", 0)
  <2>1. /\ Still /\ snapshot.state = "disconnected" /\ profile' = profile /\ profile
        /\ Tunnel!Begin(s) /\ UNCHANGED <<current, live, opened, accepted>>
    BY <1>2, AloneIsStill DEF Tunnel!HandleSystemWake, Tunnel!Connected, Tunnel!TunnelConstants
  <2>2. s \in Snapshots /\ s.port \in {0, snapshot.port}
    <3>1. w \in Snapshots /\ w.port \in {0, snapshot.port}
      BY <1>0, DispatchTyped
    <3>2. s \in Snapshots /\ s.port \in {0, w.port}
      BY <3>1, DispatchTyped
    <3> QED
      BY <3>1, <3>2
  <2>3. s.state = "ssh_probing"
    BY <1>0, <2>1, SetsOut
  <2>4. current = 0
    BY <1>0, <2>1 DEF Stands
  <2>5. profile' = TRUE
    BY <2>1 DEF LineInv, LineTypes
  <2> HIDE DEF s
  <2> QED
    BY <2>1, <2>2, <2>3, <2>4, <2>5, BeginKeepsLine DEF Still
<1>3. CASE Tunnel!TimerFires
  <2> DEFINE s == Tunnel!Dispatch(snapshot, "backoff_elapsed", 0)
  <2>1. /\ timer /\ profile' = profile
        /\ Tunnel!Begin(s) /\ UNCHANGED <<current, live, opened, accepted>>
    BY <1>3 DEF Tunnel!TimerFires, Tunnel!Connected
  <2>2. s \in Snapshots /\ s.port \in {0, snapshot.port}
    BY <1>0, DispatchTyped
  <2>3. snapshot.state \in {"reconnecting", "captive_portal_blocked"} /\ current = 0 /\ profile
    BY <1>0, <2>1 DEF Stands
  <2>4. s.state \in {"ssh_probing", "captive_portal_blocked"}
    BY <1>0, <2>3, SetsOut
  <2>5. profile' = TRUE
    BY <2>1, <2>3 DEF LineInv, LineTypes
  <2>6. \A u \in tasks : u.at \in Tunnel!Calls => Wild(u)
    BY <1>0, <2>1, <2>3 DEF Held
  <2> HIDE DEF s
  <2> QED
    BY <2>1, <2>2, <2>3, <2>4, <2>5, <2>6, BeginKeepsLine
<1> QED
  BY <1>1, <1>2, <1>3

LEMMA TunnelDropsKeepsLine ==
    ASSUME Tunnel!TunnelConstants, LineInv, NEW n \in live, Tunnel!TunnelDrops(n)
    PROVE  LineInv'
<1> USE KindsAre, StatesAre
<1> DEFINE s == Tunnel!Dispatch(snapshot, "tunnel_closed", 0)
<1>1. n = current /\ current # 0
  BY DEF LineInv, LineTypes
<1>2. /\ current' = 0 /\ live' = {} /\ Tunnel!Show(s) /\ snapshot' = s
      /\ timer' = (timer \/ Tunnel!TriesAgain(snapshot'))
      /\ UNCHANGED <<profile, generation, tasks, opened, accepted>>
  BY <1>1 DEF Tunnel!TunnelDrops, Tunnel!Close, Tunnel!GiveUp, LineInv, LineTypes, Tunnel!Show
<1>3. \A u \in tasks : u.at # "bearer"
  BY DEF Tunnel!TunnelDrops, Tunnel!Waiting, Tunnel!TunnelConstants
<1>4. snapshot \in Snapshots /\ Stands /\ \A u \in tasks : Held(u)
  BY DEF LineInv, LineTypes
<1>5. \A u \in tasks : u.at \in Tunnel!Calls => Wild(u)
  BY <1>1, <1>3, <1>4 DEF Held
<1>6. s \in Snapshots /\ s.port \in {0, snapshot.port}
  BY <1>4, DispatchTyped
<1>7. ~timer /\ \A u \in tasks : Mine(u) => ~Young(u)
  <2>1. \A u \in tasks : Mine(u) => At(u)
    BY DEF LineInv
  <2> QED
    BY <1>1, <1>4, <2>1 DEF Stands, At
<1>8. CASE snapshot.state \in {"tunnel_connecting", "authenticating", "ready", "degraded"}
  <2>1. s = Tunnel!Reconnect(snapshot)
    BY <1>4, <1>8, FallsBack
  <2>2. s.state = "reconnecting" /\ s.retry /\ profile
    BY <1>4, <1>8, <2>1 DEF Tunnel!Reconnect, Stands
  <2>3. timer' = TRUE
    <3>1. Tunnel!TriesAgain(snapshot')
      BY <1>2, <2>2 DEF Tunnel!TriesAgain
    <3> QED
      BY <1>2, <3>1, Zenon
  <2> HIDE DEF s
  <2> QED
    BY <1>2, <1>5, <1>6, <1>7, <2>2, <2>3, GivesUp
<1>9. CASE snapshot.state \notin {"tunnel_connecting", "authenticating", "ready", "degraded"}
  <2>1. s = snapshot
    BY <1>4, <1>9, FallsBack
  <2>2. snapshot.state # "reconnecting"
    BY <1>1, <1>4 DEF Stands
  <2>3. timer' = timer
    <3>1. ~Tunnel!TriesAgain(snapshot')
      BY <1>2, <2>1, <2>2 DEF Tunnel!TriesAgain
    <3>2. timer \in BOOLEAN
      BY DEF LineInv, LineTypes
    <3> QED
      BY <1>2, <3>1, <3>2, Zenon
  <2>4. heartbeat' = heartbeat
    <3>1. heartbeat.tunnel = 0
      BY <1>9 DEF LineInv, Beats
    <3> QED
      BY <1>2, <1>9, <2>1, <3>1 DEF Tunnel!Show
  <2> HIDE DEF s
  <2>5. Beats'
    BY <1>2, <2>1, <2>4 DEF LineInv, Beats
  <2>6. AtRest'
    <3>1. AtRest
      BY DEF LineInv
    <3> QED
      BY <1>2, <1>9, <2>1, <2>2, <3>1 DEF AtRest, Still, Mine, Doing
  <2>7. /\ live' = {current'} \ {0} /\ opened' \in Nat /\ opened <= opened' /\ accepted \subseteq accepted'
        /\ accepted' \subseteq 1 .. opened' /\ heartbeat' \in [tunnel : Nat, armed : BOOLEAN, gen : Nat]
    BY <1>2, <2>4 DEF LineInv, LineTypes
  <2> QED
    BY <1>2, <1>3, <1>4, <2>1, <2>3, <2>4, <2>5, <2>6, <2>7, LessToDo
<1> QED
  BY <1>8, <1>9

LEMMA BearerExpiredKeepsLine ==
    ASSUME Tunnel!TunnelConstants, LineInv, Tunnel!HandleBearerExpired
    PROVE  LineInv'
<1> USE KindsAre, StatesAre
<1> DEFINE s == Tunnel!Dispatch(snapshot, "bearer_expired", 0)
           n == Tunnel!Task("bearer", generation, "none", current)
<1>1. /\ Still /\ current # 0 /\ Tunnel!Show(s) /\ snapshot' = s /\ tasks' = tasks \cup {n}
      /\ snapshot.state = "ready"
      /\ UNCHANGED <<profile, current, timer, generation, live, opened, accepted>>
  BY AloneIsStill DEF Tunnel!HandleBearerExpired, Tunnel!Show, Tunnel!Connected, Tunnel!TunnelConstants, Tunnel!Listed
<1>2. snapshot \in Snapshots /\ Stands /\ AtRest /\ OnePipeline
  BY DEF LineInv, LineTypes
<1>3. s = [snapshot EXCEPT !.state = "authenticating"]
  <2>1. Tunnel!Dispatch(snapshot, "bearer_expired", 0) =
            IF snapshot.state = "ready" THEN [snapshot EXCEPT !.state = "authenticating"] ELSE snapshot
    BY <1>2, 0 \in Nat, Advances, Zenon
  <2> QED
    BY <1>1, <2>1
<1>4. s \in Snapshots /\ s.state = "authenticating" /\ s.port = snapshot.port
  BY <1>2, <1>3 DEF Snapshots
<1>5. n \in TaskSet /\ n.at = "bearer" /\ n.gen = generation /\ n.tunnel = current
  BY DEF Tunnel!Task, TaskSet, LineInv, LineTypes
<1> HIDE DEF s, n
<1>6. /\ Beats' /\ heartbeat' \in [tunnel : Nat, armed : BOOLEAN, gen : Nat]
      /\ heartbeat'.tunnel <= opened
  <2>1. \A u \in tasks' : u.at = "tick" => u \in tasks
    BY <1>1, <1>5
  <2>2. s.port <= opened
    BY <1>4 DEF LineInv, LineTypes
  <2> QED
    BY <1>1, <1>4, <2>1, <2>2, ShowKeepsBeats DEF LineInv, LineTypes
<1>7. \A u \in tasks : Mine(u) => u.at = "check" /\ u.tunnel # 0 /\ current \in {0, u.tunnel}
  <2>1. \A u \in tasks : Mine(u) => At(u)
    BY DEF LineInv
  <2> QED
    BY <1>1, <2>1 DEF At, Doing, Young
<1>8. \A u \in tasks' : Mine(u)' => u \in tasks /\ Mine(u)
  BY <1>1, <1>5 DEF Mine
<1>9. LineTypes'
  BY <1>1, <1>4, <1>5, <1>6 DEF LineInv, LineTypes
<1>10. OnePipeline'
  BY <1>1, <1>2, <1>5, <1>8 DEF OnePipeline, Still, LineInv, LineTypes
<1>11. Stands'
  BY <1>1, <1>2, <1>4 DEF Stands
<1>12. AtRest'
  BY <1>1, <1>5 DEF AtRest, Still
<1>13. \A u \in tasks' : Mine(u)' => At(u)'
  BY <1>1, <1>4, <1>7, <1>8 DEF At, Young
<1>14. \A u \in tasks' : Held(u)'
  BY <1>1, <1>4, <1>5, <1>7, <1>8 DEF Held, Still, Wild
<1> QED
  BY <1>6, <1>9, <1>10, <1>11, <1>12, <1>13, <1>14 DEF LineInv

LEMMA BearerAnswersKeepsLine ==
    ASSUME Tunnel!TunnelConstants, LineInv, NEW t \in tasks, Tunnel!BearerAnswers(t)
    PROVE  LineInv'
<1> USE KindsAre, StatesAre
<1>1. /\ t.at = "bearer" /\ tasks' = tasks \ {t}
      /\ UNCHANGED <<profile, current, timer, generation, live, opened>>
  BY DEF Tunnel!BearerAnswers
<1>2. PICK ok \in BOOLEAN :
         /\ ok => t.tunnel \in live
         /\ accepted' = IF ok THEN accepted \cup {t.tunnel} ELSE accepted
         /\ Tunnel!Show(Tunnel!Dispatch(snapshot, IF ok /\ current # 0 THEN "auth_succeeded" ELSE "auth_failed", current))
  BY DEF Tunnel!BearerAnswers
<1> DEFINE s == Tunnel!Dispatch(snapshot, IF ok /\ current # 0 THEN "auth_succeeded" ELSE "auth_failed", current)
<1>3. snapshot \in Snapshots /\ Stands /\ Held(t) /\ OnePipeline /\ current \in Nat
  BY DEF LineInv, LineTypes
<1>4. snapshot.state = "authenticating" /\ current = t.tunnel /\ current # 0 /\ \A u \in tasks : Mine(u) => u.at = "check"
  BY <1>1, <1>3 DEF Held
<1>5. s \in Snapshots /\ s.port \in {0, snapshot.port, current}
  BY <1>3, DispatchTyped
<1> DEFINE Taken == s.state = "ready" /\ s.port = current /\ accepted' = accepted \cup {current}
           Refused == s.state = "authenticating" /\ s.fault = "auth_rejected" /\ accepted' = accepted
<1>6. ASSUME ok PROVE Taken
  <2>1. s = Tunnel!Dispatch(snapshot, "auth_succeeded", current)
    BY <1>4, <1>6
  <2>2. Tunnel!Dispatch(snapshot, "auth_succeeded", current) =
            IF snapshot.state = "authenticating"
            THEN [Tunnel!Fresh EXCEPT !.state = "ready", !.port = current] ELSE snapshot
    BY <1>3, Advances, Zenon
  <2>3. s = [Tunnel!Fresh EXCEPT !.state = "ready", !.port = current]
    BY <1>4, <2>1, <2>2
  <2>4. s.state = "ready" /\ s.port = current
    BY <2>3 DEF Tunnel!Fresh
  <2>5. accepted' = accepted \cup {current}
    BY <1>2, <1>4, <1>6
  <2> QED
    BY <2>4, <2>5
<1>7. ASSUME ~ok PROVE Refused
  <2>1. s = Tunnel!Dispatch(snapshot, "auth_failed", current)
    BY <1>7
  <2>2. Tunnel!Dispatch(snapshot, "auth_failed", current) =
            IF snapshot.state = "authenticating" THEN [snapshot EXCEPT !.fault = "auth_rejected"] ELSE snapshot
    BY <1>3, Advances, Zenon
  <2>3. s = [snapshot EXCEPT !.fault = "auth_rejected"]
    BY <1>4, <2>1, <2>2
  <2>4. s.state = "authenticating" /\ s.fault = "auth_rejected"
    BY <1>3, <1>4, <2>3 DEF Snapshots
  <2>5. accepted' = accepted
    BY <1>2, <1>7
  <2> QED
    BY <2>4, <2>5
<1> HIDE DEF s
<1>either. Taken \/ Refused
  BY <1>6, <1>7
<1>8. /\ snapshot' = s /\ Beats' /\ heartbeat' \in [tunnel : Nat, armed : BOOLEAN, gen : Nat]
      /\ heartbeat'.tunnel <= opened
  <2>1. \A u \in tasks' : u.at = "tick" => u \in tasks
    BY <1>1
  <2>2. s.port <= opened
    BY <1>5 DEF LineInv, LineTypes, Snapshots
  <2>3. Tunnel!Show(s)
    BY <1>2 DEF s
  <2> QED
    BY <1>4, <1>5, <1>either, <2>1, <2>2, <2>3, ShowKeepsBeats DEF LineInv, LineTypes
<1>9. /\ accepted \subseteq accepted' /\ accepted' \subseteq 1 .. opened
  <2>1. current \in 1 .. opened /\ accepted \subseteq 1 .. opened
    BY <1>4 DEF LineInv, LineTypes
  <2>2. accepted' \in {accepted, accepted \cup {current}}
    BY <1>either
  <2> QED
    BY <2>1, <2>2
<1>10. LineTypes'
  <2>1. s.port <= opened
    BY <1>5 DEF LineInv, LineTypes, Snapshots
  <2> QED
    BY <1>1, <1>5, <1>8, <1>9, <2>1 DEF LineInv, LineTypes
<1>11. OnePipeline'
  BY <1>1, <1>3 DEF OnePipeline, Mine
<1>12. Stands'
  BY <1>1, <1>3, <1>4, <1>either, <1>8, <1>9 DEF Stands
<1>13. AtRest'
  BY <1>1, <1>4, <1>either, <1>8 DEF AtRest
<1>14. \A u \in tasks' : Mine(u)' => At(u)'
  <2>1. \A u \in tasks : Mine(u) => At(u)
    BY DEF LineInv
  <2> QED
    BY <1>1, <1>4, <1>either, <1>8, <2>1 DEF Mine, At, Young
<1>15. \A u \in tasks' : Held(u)'
  BY <1>1, <1>3 DEF Held, Wild, OnePipeline
<1> QED
  BY <1>8, <1>10, <1>11, <1>12, <1>13, <1>14, <1>15 DEF LineInv

LEMMA AnswersKeepsLine ==
    ASSUME Tunnel!TunnelConstants, LineInv, NEW t \in tasks, Tunnel!Answers(t)
    PROVE  LineInv'
<1> USE KindsAre, StatesAre
<1>0. /\ t.at \in {"probe", "bootstrap", "auth", "check"} /\ t \in TaskSet
      /\ UNCHANGED <<profile, current, generation, live, opened>>
  BY DEF Tunnel!Answers, LineInv, LineTypes
<1>1. PICK answer \in {"ok", "failed", "mismatch"} :
         /\ answer = "failed" => t.at # "check"
         /\ answer = "mismatch" => t.at = "check"
         /\ answer # "failed" /\ t.at \in {"auth", "check"} => t.tunnel \in live
         /\ accepted' = IF answer = "ok" /\ t.at = "auth" THEN accepted \cup {t.tunnel} ELSE accepted
         /\ ~Tunnel!IsCurrent(t) => Tunnel!Ends(t) /\ UNCHANGED <<snapshot, timer, heartbeat>>
         /\ Tunnel!IsCurrent(t) /\ answer = "failed" => Tunnel!Fails(t)
         /\ Tunnel!IsCurrent(t) /\ answer = "ok" =>
               Tunnel!Succeeds(t, IF t.at = "check" THEN "heartbeat_ok" ELSE Tunnel!Success(t.at), t.tunnel)
         /\ Tunnel!IsCurrent(t) /\ answer = "mismatch" => Tunnel!Succeeds(t, "version_mismatch", t.tunnel)
  BY DEF Tunnel!Answers, Tunnel!TunnelConstants
<1>2. CASE ~Tunnel!IsCurrent(t)
  <2>1. tasks' = tasks \ {t} /\ UNCHANGED <<snapshot, timer, heartbeat>> /\ ~Mine(t)
    BY <1>1, <1>2 DEF Tunnel!Ends, Tunnel!IsCurrent, Mine
  <2>2. AtRest'
    BY <1>0, <2>1, RestLeft
  <2>3. accepted \subseteq accepted' /\ accepted' \subseteq 1 .. opened
    <3>1. live \subseteq 1 .. opened /\ accepted \subseteq 1 .. opened
      BY DEF LineInv, LineTypes
    <3>2. accepted' = accepted \/ (t.tunnel \in live /\ accepted' = accepted \cup {t.tunnel})
      BY <1>1
    <3> QED
      BY <3>1, <3>2
  <2>4. Beats'
    BY <2>1 DEF LineInv, Beats
  <2> QED
    BY <1>0, <2>1, <2>2, <2>3, <2>4, LessToDo DEF LineInv, LineTypes
<1>3. CASE Tunnel!IsCurrent(t) /\ answer = "failed"
  <2>1. Mine(t) /\ Tunnel!Fails(t) /\ t.at # "check" /\ accepted' = accepted
    BY <1>0, <1>1, <1>3 DEF Mine, Tunnel!IsCurrent
  <2> QED
    BY <1>0, <2>1, FailsKeepsLine
<1>4. CASE Tunnel!IsCurrent(t) /\ answer = "ok" /\ t.at # "check"
  <2> DEFINE n == Tunnel!Task(Tunnel!After(t.at), t.gen, "none", t.tunnel)
  <2>1. Mine(t) /\ Tunnel!Succeeds(t, Tunnel!Success(t.at), t.tunnel)
    BY <1>0, <1>1, <1>4 DEF Mine, Tunnel!IsCurrent
  <2>2. /\ Tunnel!Show(Tunnel!Dispatch(snapshot, Tunnel!Success(t.at), t.tunnel))
        /\ tasks' = (tasks \ {t}) \cup {n} /\ timer' = timer
    BY <1>4, <2>1 DEF Tunnel!Succeeds
  <2>3. Tunnel!After(t.at) \in Tunnel!Stages
    BY <1>0, <1>4 DEF Tunnel!After
  <2>4. n \in TaskSet /\ n.at = Tunnel!After(t.at) /\ n.gen = t.gen /\ n.tunnel = t.tunnel
    BY <1>0, <2>3 DEF Tunnel!Task, TaskSet
  <2> HIDE DEF n
  <2>5. IF t.at = "auth" THEN t.tunnel \in live /\ accepted' = accepted \cup {t.tunnel} ELSE accepted' = accepted
    BY <1>1, <1>4
  <2>6. IF t.at = "open"
        THEN opened' = opened + 1 /\ current' = opened' /\ n.tunnel = opened' /\ live' = live \cup {opened'}
        ELSE UNCHANGED <<current, opened, live>> /\ n.tunnel = t.tunnel
    BY <1>0, <2>4
  <2>7. t.at \in {"probe", "bootstrap", "open", "auth"}
    BY <1>0, <1>4
  <2> QED
    BY <1>0, <2>1, <2>2, <2>4, <2>5, <2>6, <2>7, GoesOn
<1>5. CASE Tunnel!IsCurrent(t) /\ t.at = "check"
  <2>1. Mine(t) /\ answer \in {"ok", "mismatch"} /\ t.tunnel \in live /\ accepted' = accepted
    BY <1>0, <1>1, <1>5 DEF Mine, Tunnel!IsCurrent
  <2>2. PICK event \in {"heartbeat_ok", "version_mismatch"} : Tunnel!Succeeds(t, event, t.tunnel)
    BY <1>1, <1>5, <2>1
  <2> DEFINE s == Tunnel!Dispatch(snapshot, event, t.tunnel)
  <2>3. Tunnel!Show(s) /\ snapshot' = s /\ tasks' = tasks \ {t} /\ timer' = timer
    BY <1>5, <2>2 DEF Tunnel!Succeeds, Tunnel!Show
  <2>4. /\ snapshot \in Snapshots /\ t.tunnel \in Nat /\ At(t) /\ current = t.tunnel /\ current # 0
        /\ Stands /\ AtRest /\ OnePipeline
    BY <2>1 DEF LineInv, LineTypes, TaskSet
  <2>5. snapshot.state \in {"captive_portal_blocked", "ready", "authenticating"} /\ ~timer
    BY <1>5, <2>4 DEF At, Doing, Stands
  <2>6. s = IF event = "version_mismatch" /\ snapshot.state = "ready"
            THEN [snapshot EXCEPT !.state = "degraded", !.fault = "other"] ELSE snapshot
    <3>1. Tunnel!Dispatch(snapshot, "heartbeat_ok", t.tunnel) =
              IF snapshot.state = "degraded"
              THEN [Tunnel!Fresh EXCEPT !.state = "ready", !.port = snapshot.port] ELSE snapshot
      BY <2>4, Advances, Zenon
    <3>2. Tunnel!Dispatch(snapshot, "version_mismatch", t.tunnel) =
              IF snapshot.state = "ready"
              THEN [snapshot EXCEPT !.state = "degraded", !.fault = "other"] ELSE snapshot
      BY <2>4, Advances, Zenon
    <3> QED
      BY <2>2, <2>5, <3>1, <3>2
  <2> HIDE DEF s
  <2>7. /\ s \in Snapshots /\ s.port = snapshot.port /\ s.retry = snapshot.retry
        /\ \/ s = snapshot
           \/ s.state = "degraded" /\ snapshot.state = "ready"
    <3>1. "degraded" \in Tunnel!States
      OBVIOUS
    <3> QED
      BY <2>4, <2>6, <3>1 DEF Snapshots
  <2>8. /\ Beats' /\ heartbeat' \in [tunnel : Nat, armed : BOOLEAN, gen : Nat]
        /\ heartbeat'.tunnel <= opened
    <3>1. s.port <= opened
      BY <2>7 DEF LineInv, LineTypes
    <3>2. s.state = "ready" => s.port # 0
      BY <2>4, <2>5, <2>7 DEF Stands
    <3>3. \A u \in tasks' : u.at = "tick" => u \in tasks
      BY <2>3
    <3> QED
      BY <2>3, <2>7, <3>1, <3>2, <3>3, ShowKeepsBeats DEF LineInv, LineTypes
  <2>9. \A u \in tasks' : ~Mine(u)'
    BY <1>0, <2>1, <2>3, <2>4 DEF OnePipeline, Mine
  <2>10. LineTypes'
    BY <1>0, <2>1, <2>3, <2>7, <2>8 DEF LineInv, LineTypes
  <2>11. OnePipeline'
    BY <1>0, <2>3, <2>4 DEF OnePipeline, Mine
  <2>12. Stands'
    BY <1>0, <2>1, <2>3, <2>4, <2>5, <2>7, <2>9 DEF Stands
  <2>13. AtRest'
    <3>1. Still' => snapshot.state # "authenticating" \/ snapshot.fault = "auth_rejected"
      <4>1. \A u \in tasks : Mine(u) => ~Doing(u)
        BY <1>5, <2>1, <2>4 DEF OnePipeline, Doing
      <4>2. Still' => Still
        BY <1>5, <2>3 DEF Still
      <4> QED
        BY <2>4, <4>1, <4>2 DEF AtRest
    <3> QED
      BY <1>0, <2>3, <2>4, <2>5, <2>7, <3>1 DEF AtRest
  <2>14. \A u \in tasks' : Held(u)'
    <3>1. \A u \in tasks : Held(u) /\ (u.at \in Tunnel!Calls => Wild(u) \/ u.at = "bearer")
      BY <2>1, CallsOfPipeline DEF LineInv
    <3>2. \A u \in tasks : u.at = "bearer" => s = snapshot
      BY <2>7, <3>1 DEF Held
    <3> QED
      BY <1>0, <2>3, <2>5, <2>7, <2>9, <3>1, <3>2 DEF Held, Wild, Detected
  <2> QED
    BY <2>8, <2>9, <2>10, <2>11, <2>12, <2>13, <2>14 DEF LineInv
<1> QED
  BY <1>1, <1>2, <1>3, <1>4, <1>5

LEMMA OpensKeepsLine ==
    ASSUME Tunnel!TunnelConstants, LineInv, NEW t \in tasks, Tunnel!Opens(t) \/ Tunnel!OpenFails(t)
    PROVE  LineInv'
<1> USE KindsAre, StatesAre
<1>0. t.at = "open" /\ t \in TaskSet /\ UNCHANGED <<profile, generation, accepted>> /\ opened \in Nat
  BY DEF Tunnel!Opens, Tunnel!OpenFails, Tunnel!Connected, LineInv, LineTypes
<1>1. CASE ~Tunnel!IsCurrent(t)
  <2>1. /\ tasks' = tasks \ {t} /\ UNCHANGED <<snapshot, timer, heartbeat, current, live>> /\ ~Mine(t)
        /\ opened' \in {opened, opened + 1}
    BY <1>1 DEF Tunnel!Opens, Tunnel!OpenFails, Tunnel!Connected, Tunnel!Ends, Tunnel!IsCurrent, Mine
  <2>2. AtRest'
    BY <1>0, <2>1, RestLeft
  <2>3. opened' \in Nat /\ opened <= opened' /\ accepted' \subseteq 1 .. opened'
    BY <1>0, <2>1 DEF LineInv, LineTypes
  <2>4. Beats'
    BY <2>1 DEF LineInv, Beats
  <2> QED
    BY <1>0, <2>1, <2>2, <2>3, <2>4, LessToDo DEF LineInv, LineTypes
<1>2. CASE Tunnel!IsCurrent(t) /\ Tunnel!OpenFails(t)
  <2>1. Mine(t) /\ Tunnel!Fails(t) /\ UNCHANGED <<current, live, opened>>
    BY <1>0, <1>2 DEF Mine, Tunnel!IsCurrent, Tunnel!OpenFails, Tunnel!Connected
  <2> QED
    BY <1>0, <2>1, FailsKeepsLine
<1>3. CASE Tunnel!IsCurrent(t) /\ Tunnel!Opens(t)
  <2> DEFINE n == Tunnel!Task(Tunnel!After(t.at), t.gen, "none", opened')
  <2>1. /\ Mine(t) /\ opened' = opened + 1 /\ current' = opened' /\ live' = live \cup {opened'}
        /\ Tunnel!Succeeds(t, "tunnel_opened", opened')
    BY <1>0, <1>3 DEF Mine, Tunnel!IsCurrent, Tunnel!Opens
  <2>2. /\ Tunnel!Show(Tunnel!Dispatch(snapshot, "tunnel_opened", opened'))
        /\ tasks' = (tasks \ {t}) \cup {n} /\ timer' = timer
    BY <1>0, <2>1 DEF Tunnel!Succeeds
  <2>3. Tunnel!After(t.at) \in Tunnel!Stages /\ Tunnel!Success(t.at) = "tunnel_opened"
    BY <1>0 DEF Tunnel!After, Tunnel!Success
  <2>4. n \in TaskSet /\ n.at = Tunnel!After(t.at) /\ n.gen = t.gen /\ n.tunnel = opened'
    BY <1>0, <2>1, <2>3 DEF Tunnel!Task, TaskSet
  <2> HIDE DEF n
  <2>5. IF t.at = "open"
        THEN opened' = opened + 1 /\ current' = opened' /\ n.tunnel = opened' /\ live' = live \cup {opened'}
        ELSE UNCHANGED <<current, opened, live>> /\ n.tunnel = t.tunnel
    BY <1>0, <2>1, <2>4
  <2>6. IF t.at = "auth" THEN t.tunnel \in live /\ accepted' = accepted \cup {t.tunnel} ELSE accepted' = accepted
    BY <1>0
  <2>7. t.at \in {"probe", "bootstrap", "open", "auth"}
    BY <1>0
  <2>8. Tunnel!Show(Tunnel!Dispatch(snapshot, Tunnel!Success(t.at), n.tunnel))
    BY <2>2, <2>3, <2>4
  <2> QED
    BY <1>0, <2>1, <2>2, <2>4, <2>5, <2>6, <2>7, <2>8, GoesOn
<1> QED
  BY <1>1, <1>2, <1>3

LEMMA CaptiveAnswersKeepsLine ==
    ASSUME Tunnel!TunnelConstants, LineInv, NEW t \in tasks, Tunnel!CaptiveAnswers(t)
    PROVE  LineInv'
<1> USE KindsAre, StatesAre
<1>0. t.at = "captive" /\ Still /\ UNCHANGED <<profile, opened, accepted>>
  BY AloneIsStill DEF Tunnel!CaptiveAnswers
<1>1. /\ snapshot \in Snapshots /\ Stands /\ AtRest /\ t \in TaskSet /\ timer \in BOOLEAN
      /\ \A u \in tasks : Mine(u) => At(u)
  BY DEF LineInv, LineTypes
<1>2. CASE Tunnel!Ends(t) /\ timer' = (timer \/ Tunnel!TriesAgain(snapshot))
           /\ UNCHANGED <<snapshot, heartbeat, generation, current, live>>
  <2>1. tasks' = tasks \ {t}
    BY <1>2 DEF Tunnel!Ends
  <2>2. CASE snapshot.state = "reconnecting"
    <3>1. snapshot.retry /\ profile /\ current = 0
      BY <1>1, <2>2 DEF Stands
    <3>2. timer' = TRUE
      <4>1. Tunnel!TriesAgain(snapshot)
        BY <2>2, <3>1 DEF Tunnel!TriesAgain
      <4> QED
        BY <1>2, <4>1, Zenon
    <3>3. Tunnel!Show(snapshot)
      <4>1. heartbeat.tunnel = 0
        BY <2>2 DEF LineInv, Beats
      <4> QED
        BY <1>2, <4>1 DEF Tunnel!Show
    <3>4. \A u \in tasks' : Mine(u) => ~Young(u)
      BY <1>1, <2>1, <2>2 DEF At, Doing, Young
    <3>5. current' = 0 /\ live' = {}
      BY <1>2, <3>1 DEF LineInv, LineTypes
    <3>6. \A u \in tasks : u.at \in Tunnel!Calls => Wild(u)
      BY <1>0 DEF Still
    <3> QED
      BY <1>0, <1>1, <1>2, <2>1, <2>2, <3>1, <3>2, <3>3, <3>4, <3>5, <3>6, GivesUp
  <2>3. CASE snapshot.state # "reconnecting"
    <3>1. timer' = timer
      <4>1. ~Tunnel!TriesAgain(snapshot)
        BY <2>3 DEF Tunnel!TriesAgain
      <4> QED
        BY <1>1, <1>2, <4>1, Zenon
    <3>2. AtRest'
      <4>1. ~Mine(t)
        BY <1>0 DEF Mine
      <4> QED
        BY <1>0, <1>2, <2>1, <2>3, <3>1, <4>1, RestLeft
    <3>3. Beats'
      BY <1>2, <2>1 DEF LineInv, Beats
    <3> QED
      BY <1>0, <1>2, <2>1, <3>1, <3>2, <3>3, LessToDo DEF LineInv, LineTypes
  <2> QED
    BY <2>2, <2>3
<1>3. Tunnel!Bump /\ Tunnel!Close =>
         /\ generation' = generation + 1 /\ generation' \in 0 .. MaxGeneration /\ generation' \in Nat
         /\ current' = 0 /\ live' = {}
  BY DEF Tunnel!Bump, Tunnel!Close, LineInv, LineTypes, Tunnel!TunnelConstants
<1>4. CASE /\ Tunnel!Bump /\ Tunnel!Close /\ timer' = FALSE /\ current # 0
           /\ tasks' = (tasks \ {t}) \cup {Tunnel!Task("network", generation', Detected, 0)}
           /\ UNCHANGED <<snapshot, heartbeat>>
  <2> DEFINE n == Tunnel!Task("network", generation', Detected, 0)
  <2>1. n \in TaskSet /\ n.at = "network" /\ n.gen = generation' /\ n.event = Detected /\ n.tunnel = 0
    BY <1>3, <1>4 DEF Tunnel!Task, TaskSet
  <2>2. tasks' = (tasks \ {t}) \cup {n}
    BY <1>4
  <2> HIDE DEF n
  <2>3. \A u \in tasks' : ~Mine(u)'
    BY <1>3, <1>4, <2>1, <2>2 DEF Mine, LineInv, LineTypes, TaskSet, OnePipeline
  <2>4. LineTypes'
    <3>1. timer' \in BOOLEAN
      BY <1>4, Zenon
    <3> QED
      BY <1>0, <1>3, <1>4, <2>1, <2>2, <3>1 DEF LineInv, LineTypes
  <2>5. Beats'
    BY <1>4, <2>1, <2>2 DEF LineInv, Beats
  <2>6. OnePipeline'
    BY <1>0, <1>3, <1>4, <2>1, <2>2, <2>3 DEF OnePipeline, LineInv, LineTypes, TaskSet, Still
  <2>7. Stands'
    BY <1>0, <1>1, <1>3, <1>4, <2>3 DEF Stands
  <2>8. AtRest'
    BY <2>1, <2>2 DEF AtRest, Still
  <2>9. snapshot.state \in Tunnel!Active
    BY <1>1, <1>4 DEF Stands, Snapshots
  <2>10. \A u \in tasks' : Held(u)'
    BY <1>0, <1>4, <2>1, <2>2, <2>9 DEF Held, Still, Wild, Detected
  <2> QED
    BY <2>3, <2>4, <2>5, <2>6, <2>7, <2>8, <2>10 DEF LineInv
<1>5. CASE /\ Tunnel!Bump /\ Tunnel!Close /\ timer' = FALSE /\ current = 0
           /\ Tunnel!Ends(t) /\ Tunnel!Show(Tunnel!Dispatch(snapshot, Detected, 0))
  <2> DEFINE s == Tunnel!Dispatch(snapshot, Detected, 0)
  <2>1. tasks' = tasks \ {t} /\ Tunnel!Show(s) /\ snapshot' = s
    BY <1>5 DEF Tunnel!Ends, Tunnel!Show
  <2>2. s \in Snapshots /\ s.port \in {0, snapshot.port}
    BY <1>1, DispatchTyped
  <2>3. s = IF snapshot.state \in Tunnel!Active \ {"captive_portal_blocked"}
            THEN Tunnel!Pause(snapshot, "captive_portal_blocked") ELSE snapshot
    <3>1. Detected \in NetworkEvents
      BY DEF Detected, NetworkEvents
    <3> QED
      BY <1>1, <3>1, Hears
  <2>4. /\ s.state \in {"captive_portal_blocked", "unconfigured", "disconnected"}
        /\ s.state = "unconfigured" <=> snapshot.state = "unconfigured"
    BY <1>1, <2>3 DEF Tunnel!Pause, Snapshots
  <2> HIDE DEF s
  <2>5. /\ Beats' /\ heartbeat' \in [tunnel : Nat, armed : BOOLEAN, gen : Nat]
        /\ heartbeat'.tunnel <= opened
    <3>1. s.port <= opened
      BY <2>2 DEF LineInv, LineTypes
    <3>2. \A u \in tasks' : u.at = "tick" => u \in tasks
      BY <2>1
    <3> QED
      BY <2>1, <2>2, <2>4, <3>1, <3>2, ShowKeepsBeats DEF LineInv, LineTypes
  <2>6. \A u \in tasks' : ~Mine(u)'
    BY <1>3, <1>5, <2>1 DEF Mine, LineInv, LineTypes, TaskSet, OnePipeline
  <2>7. LineTypes'
    <3>1. timer' \in BOOLEAN
      BY <1>5, Zenon
    <3>2. s.port <= opened
      BY <2>2 DEF LineInv, LineTypes
    <3> QED
      BY <1>0, <1>3, <1>5, <2>1, <2>2, <2>5, <3>1, <3>2 DEF LineInv, LineTypes
  <2>8. OnePipeline'
    BY <1>0, <1>3, <1>5, <2>1, <2>6 DEF OnePipeline, LineInv, LineTypes, TaskSet, Still
  <2>9. Stands'
    BY <1>0, <1>1, <1>3, <1>5, <2>1, <2>4, <2>6 DEF Stands
  <2>10. AtRest'
    BY <2>1, <2>4 DEF AtRest
  <2>11. \A u \in tasks' : Held(u)'
    BY <1>0, <2>1 DEF Held, Still, Wild
  <2> QED
    BY <2>5, <2>6, <2>7, <2>8, <2>9, <2>10, <2>11 DEF LineInv
<1> QED
  BY <1>2, <1>4, <1>5 DEF Tunnel!CaptiveAnswers, Detected

LEMMA TicksKeepLine ==
    ASSUME Tunnel!TunnelConstants, LineInv, Tunnel!TickStarts \/ \E t \in tasks : Tunnel!TickAnswers(t)
    PROVE  LineInv'
<1> USE KindsAre, StatesAre
<1>0. /\ snapshot \in Snapshots /\ Stands /\ AtRest /\ Beats
      /\ heartbeat \in [tunnel : Nat, armed : BOOLEAN, gen : Nat]
      /\ \A u \in tasks : Held(u)
  BY DEF LineInv, LineTypes
<1>1. CASE Tunnel!TickStarts
  <2> DEFINE n == Tunnel!Task("tick", heartbeat.gen, "none", heartbeat.tunnel)
  <2>1. /\ heartbeat.armed /\ heartbeat' = [heartbeat EXCEPT !.armed = FALSE] /\ tasks' = tasks \cup {n}
        /\ UNCHANGED <<snapshot, profile, current, timer, generation, live, opened, accepted>>
    BY <1>1 DEF Tunnel!TickStarts, Tunnel!Connected
  <2>2. n \in TaskSet /\ n.at = "tick" /\ n.gen = heartbeat.gen /\ n.tunnel = heartbeat.tunnel
    BY <1>0 DEF Tunnel!Task, TaskSet
  <2> HIDE DEF n
  <2>3. /\ heartbeat' \in [tunnel : Nat, armed : BOOLEAN, gen : Nat] /\ ~heartbeat'.armed
        /\ heartbeat'.tunnel = heartbeat.tunnel /\ heartbeat'.gen = heartbeat.gen
    BY <1>0, <2>1
  <2>4. \A u \in tasks' : Mine(u)' => u \in tasks /\ Mine(u)
    BY <2>1, <2>2 DEF Mine
  <2>5. Beats'
    BY <1>0, <2>1, <2>2, <2>3 DEF Beats
  <2>6. LineTypes'
    <3>1. heartbeat.tunnel <= opened
      BY DEF LineInv, LineTypes
    <3> QED
      BY <2>1, <2>2, <2>3, <3>1 DEF LineInv, LineTypes
  <2>7. OnePipeline'
    <3>1. OnePipeline
      BY DEF LineInv
    <3> QED
      BY <2>1, <2>2, <3>1 DEF OnePipeline, Mine
  <2>8. Stands'
    BY <1>0, <2>1, <2>4 DEF Stands
  <2>9. AtRest'
    BY <1>0, <2>1, <2>2 DEF AtRest, Still, Mine, Doing
  <2>10. \A u \in tasks' : Mine(u)' => At(u)'
    <3>1. \A u \in tasks : Mine(u) => At(u)
      BY DEF LineInv
    <3> QED
      BY <2>1, <2>4, <3>1 DEF At, Doing
  <2>11. \A u \in tasks' : Held(u)'
    BY <1>0, <2>1, <2>2, <2>3, <2>4 DEF Held, Wild
  <2> QED
    BY <2>5, <2>6, <2>7, <2>8, <2>9, <2>10, <2>11 DEF LineInv
<1>2. ASSUME NEW t \in tasks, Tunnel!TickAnswers(t) PROVE LineInv'
  <2>1. t.at = "tick" /\ tasks' = tasks \ {t} /\ UNCHANGED <<profile, generation, opened, accepted>> /\ ~Mine(t)
    BY <1>2 DEF Tunnel!TickAnswers, Tunnel!Ends, Mine
  <2>2. CASE /\ UNCHANGED <<snapshot, current, timer, live>>
             /\ \/ heartbeat' = heartbeat
                \/ Tunnel!TickIsCurrent(t) /\ heartbeat' = [heartbeat EXCEPT !.armed = TRUE]
    <3>1. /\ heartbeat' \in [tunnel : Nat, armed : BOOLEAN, gen : Nat]
          /\ heartbeat'.tunnel = heartbeat.tunnel /\ heartbeat'.gen = heartbeat.gen
          /\ heartbeat'.armed => heartbeat.tunnel # 0
      BY <1>0, <2>1, <2>2 DEF Beats, Tunnel!TickIsCurrent
    <3>2. Beats'
      BY <1>0, <2>1, <2>2, <3>1 DEF Beats
    <3>3. AtRest'
      BY <2>1, <2>2, RestLeft
    <3> QED
      BY <1>0, <2>1, <2>2, <3>1, <3>2, <3>3, LessToDo DEF LineInv, LineTypes
  <2>3. CASE Tunnel!TickIsCurrent(t) /\ Tunnel!Close /\ Tunnel!GiveUp("heartbeat_timeout")
    <3> DEFINE s == Tunnel!Dispatch(snapshot, "heartbeat_timeout", 0)
    <3>1. snapshot.state = "ready" /\ heartbeat.tunnel # 0 /\ profile
      BY <1>0, <2>1, <2>3 DEF Beats, Stands, Tunnel!TickIsCurrent
    <3>2. /\ current' = 0 /\ live' = {} /\ Tunnel!Show(s) /\ snapshot' = s
          /\ timer' = (timer \/ Tunnel!TriesAgain(snapshot'))
      BY <2>3 DEF Tunnel!Close, Tunnel!GiveUp, Tunnel!Show, LineInv, LineTypes
    <3>3. s = Tunnel!Reconnect(snapshot)
      BY <1>0, <3>1, FallsBack
    <3>4. s \in Snapshots /\ s.port \in {0, snapshot.port}
      BY <1>0, DispatchTyped
    <3>5. s.state = "reconnecting" /\ s.retry
      BY <3>3 DEF Tunnel!Reconnect
    <3> HIDE DEF s
    <3>6. timer' = TRUE
      <4>1. Tunnel!TriesAgain(snapshot')
        BY <3>1, <3>2, <3>5 DEF Tunnel!TriesAgain
      <4> QED
        BY <3>2, <4>1, Zenon
    <3>7. \A u \in tasks' : Mine(u) => ~Young(u)
      <4>1. \A u \in tasks : Mine(u) => At(u)
        BY DEF LineInv
      <4> QED
        BY <2>1, <3>1, <4>1 DEF At, Doing, Young
    <3>8. \A u \in tasks : u.at \in Tunnel!Calls => Wild(u)
      BY <1>0, <3>1 DEF Held
    <3> QED
      BY <2>1, <3>1, <3>2, <3>4, <3>5, <3>6, <3>7, <3>8, GivesUp
  <2> QED
    BY <1>2, <2>2, <2>3 DEF Tunnel!TickAnswers
<1> QED
  BY <1>1, <1>2

LEMMA LineNext == ASSUME Tunnel!TunnelConstants PROVE LineInv /\ [Tunnel!Next]_(Tunnel!vars) => LineInv'
<1> SUFFICES ASSUME LineInv, [Tunnel!Next]_(Tunnel!vars) PROVE LineInv'
  OBVIOUS
<1>1. CASE Tunnel!Connect \/ Tunnel!HandleSystemWake \/ Tunnel!TimerFires
  BY <1>1, CallsBegin
<1>2. CASE Tunnel!Disconnect \/ Tunnel!HandleSystemSleep
  BY <1>2, ClosingKeepsLine DEF Tunnel!Disconnect, Tunnel!HandleSystemSleep
<1>3. CASE Tunnel!HandleNetworkSignal
  <2>1. PICK event \in Signals : snapshot.state \in Tunnel!Listed(event) /\ Tunnel!Closing("network", event)
    BY <1>3 DEF Tunnel!HandleNetworkSignal, Tunnel!TunnelConstants
  <2>2. event # "none"
    BY DEF Tunnel!TunnelConstants
  <2> QED
    BY <2>1, <2>2, ClosingKeepsLine
<1>4. CASE Tunnel!HandleBearerExpired
  BY <1>4, BearerExpiredKeepsLine
<1>5. CASE Tunnel!TickStarts
  BY <1>5, TicksKeepLine
<1>6. CASE \E n \in live : Tunnel!TunnelDrops(n)
  BY <1>6, TunnelDropsKeepsLine
<1>7. ASSUME NEW t \in tasks, \/ Tunnel!Closed(t) \/ Tunnel!BearerAnswers(t) \/ Tunnel!Answers(t) \/ Tunnel!Opens(t)
                              \/ Tunnel!OpenFails(t) \/ Tunnel!CaptiveAnswers(t) \/ Tunnel!TickAnswers(t)
      PROVE  LineInv'
  BY <1>7, ClosedKeepsLine, BearerAnswersKeepsLine, AnswersKeepsLine, OpensKeepsLine, CaptiveAnswersKeepsLine,
     TicksKeepLine
<1>8. CASE UNCHANGED Tunnel!vars
  <2>1. /\ snapshot' = snapshot /\ profile' = profile /\ current' = current /\ timer' = timer
        /\ generation' = generation /\ tasks' = tasks /\ live' = live /\ opened' = opened
        /\ accepted' = accepted /\ heartbeat' = heartbeat
    BY <1>8 DEF Tunnel!vars
  <2>2. Beats' /\ AtRest'
    BY <2>1 DEF LineInv, Beats, AtRest, Still, Mine, Doing
  <2> QED
    BY <2>1, <2>2, LessToDo DEF LineInv, LineTypes
<1> QED
  BY <1>1, <1>2, <1>3, <1>4, <1>5, <1>6, <1>7, <1>8 DEF Tunnel!Next

LEMMA LineAlways == ASSUME Tunnel!TunnelConstants PROVE Tunnel!Spec => []LineInv
<1>1. Tunnel!Init => LineInv
  BY LineInit
<1>2. LineInv /\ [Tunnel!Next]_(Tunnel!vars) => LineInv'
  BY LineNext
<1> QED
  BY <1>1, <1>2, PTL DEF Tunnel!Spec

\* A tunnel that is shown as usable is open, the one whose port is shown, and the daemon has
\* accepted the bearer over it, and there is no other: one that was opened too late is closed
\* at once (electron/tunnel/orchestrator.ts:146-207).  An answer to a heartbeat counts only if
\* it was asked for over that tunnel (heartbeatTimer.ts:163-165).
THEOREM ReadyIsAlwaysUp ==
    ASSUME Tunnel!TunnelConstants
    PROVE  Tunnel!Spec => [](Tunnel!TunnelTypeOK /\ Tunnel!ReadyIsUp /\ Tunnel!NoTunnelForgotten /\ Tunnel!TicksAreCurrent)
<1>1. LineInv => Tunnel!TunnelTypeOK
  <2> SUFFICES ASSUME LineInv PROVE Tunnel!TunnelTypeOK
    OBVIOUS
  <2>1. snapshot \in [state : Tunnel!States, fault : {"none", "auth_rejected", "other"}, attempts : 0 .. 2,
                      retry : BOOLEAN, port : 0 .. opened]
    BY DEF LineInv, LineTypes, Snapshots
  <2>2. live \cup accepted \subseteq 1 .. opened /\ current \in 0 .. opened
    BY DEF LineInv, LineTypes
  <2>3. tasks \subseteq [at : Tunnel!Stages \cup Tunnel!Calls \cup {"captive", "tick"}, gen : Nat,
                         event : Signals \cup {"none", "network_captive_portal_detected"}, tunnel : 0 .. opened]
    BY DEF LineInv, LineTypes, TaskSet, Detected
  <2>4. heartbeat \in [tunnel : 0 .. opened, armed : BOOLEAN, gen : Nat]
    BY DEF LineInv, LineTypes
  <2> QED
    BY <2>1, <2>2, <2>3, <2>4 DEF LineInv, LineTypes, Tunnel!TunnelTypeOK
<1>2. Tunnel!Settled <=> Still
  BY KindsAre DEF Tunnel!Settled, Tunnel!Waiting, Still
<1>3. LineInv => Tunnel!ReadyIsUp
  BY <1>2 DEF LineInv, LineTypes, AtRest, Stands, Tunnel!ReadyIsUp
<1>4. LineInv => Tunnel!NoTunnelForgotten
  BY DEF LineInv, LineTypes, Tunnel!NoTunnelForgotten
<1>5. LineInv => Tunnel!TicksAreCurrent
  BY <1>2, StatesAre DEF LineInv, Beats, AtRest, Stands, Tunnel!TicksAreCurrent, Tunnel!Waiting, Tunnel!TickIsCurrent
<1>6. LineInv => Tunnel!TunnelTypeOK /\ Tunnel!ReadyIsUp /\ Tunnel!NoTunnelForgotten /\ Tunnel!TicksAreCurrent
  BY <1>1, <1>3, <1>4, <1>5
<1> QED
  BY <1>6, LineAlways, PTL

\* Work that is shown is under way: each working state has the pipeline that can end it at its
\* own stage, and a tunnel that died is tried again (orchestrator.ts:146-227).  Who was asked to
\* hang up stays so: no timer, no tunnel, nobody at work on one (orchestrator.ts:80-95).
THEOREM WhatIsShownIsDone ==
    ASSUME Tunnel!TunnelConstants
    PROVE  Tunnel!Spec => [](Tunnel!WorkIsUnderWay /\ Tunnel!ReconnectingIsArmed /\ Tunnel!StaysDown)
<1>1. Tunnel!Settled <=> Still
  BY KindsAre DEF Tunnel!Settled, Tunnel!Waiting, Still
<1>2. LineInv => Tunnel!WorkIsUnderWay
  <2> SUFFICES ASSUME LineInv, Still, snapshot.state \in Tunnel!Working,
                      ~(snapshot.state = "authenticating" /\ snapshot.fault = "auth_rejected")
               PROVE  \E t \in tasks : /\ t.gen = generation
                                       /\ t.at = CASE snapshot.state = "ssh_probing" -> "probe"
                                                   [] snapshot.state = "bootstrapping" -> "bootstrap"
                                                   [] snapshot.state = "tunnel_connecting" -> "open"
                                                   [] snapshot.state = "authenticating" -> "auth"
    BY <1>1 DEF Tunnel!WorkIsUnderWay
  <2>1. PICK t \in tasks : Mine(t) /\ Doing(t)
    BY DEF LineInv, AtRest
  <2> QED
    BY <2>1 DEF Mine, Doing
<1>3. LineInv => Tunnel!ReconnectingIsArmed
  BY <1>1 DEF LineInv, AtRest, Stands, Tunnel!ReconnectingIsArmed, Tunnel!Waiting
<1>4. LineInv => Tunnel!StaysDown
  BY <1>1 DEF LineInv, Stands, Mine, Tunnel!StaysDown, Tunnel!Waiting
<1>5. LineInv => Tunnel!WorkIsUnderWay /\ Tunnel!ReconnectingIsArmed /\ Tunnel!StaysDown
  BY <1>2, <1>3, <1>4
<1> QED
  BY <1>5, LineAlways, PTL

-----------------------------------------------------------------------------
(* PushHook.  While a hook is being written none of the user's is at the   *)
(* path: it has been moved aside, where only ours never goes.              *)

CONSTANTS UserHooks, Managed, MaxEdits, MaxCrashes
VARIABLES hook, backup, tmp, discarded
Hooks == INSTANCE PushHook

HookInv ==
    /\ Hooks!HookTypeOK /\ Hooks!UserHookKept /\ Hooks!NeverChainsItself
    /\ made \subseteq UserHooks
    /\ pc \in {"write", "rename"} => hook \notin UserHooks
    /\ pc = "rename" => tmp = Managed

LEMMA HookStep == ASSUME Hooks!HookConstants PROVE HookInv /\ [Hooks!Next]_(Hooks!vars) => HookInv'
<1> SUFFICES ASSUME Hooks!HookConstants, HookInv, [Hooks!Next]_(Hooks!vars) PROVE HookInv'
  OBVIOUS
<1> USE DEF HookInv, Hooks!HookTypeOK, Hooks!UserHookKept, Hooks!NeverChainsItself, Hooks!HookConstants
<1>1. CASE Hooks!Install
  BY <1>1 DEF Hooks!Install, Hooks!Idle
<1>2. CASE Hooks!WriteTemp \/ Hooks!Rename
  BY <1>2 DEF Hooks!WriteTemp, Hooks!Rename
<1>3. CASE Hooks!Uninstall
  BY <1>3 DEF Hooks!Uninstall, Hooks!Idle
<1>4. CASE Hooks!UserRemoves \/ \E h \in UserHooks : Hooks!UserWrites(h)
  <2>1. CASE Hooks!UserRemoves
    BY <2>1 DEF Hooks!UserRemoves, Hooks!Idle
  <2>2. ASSUME NEW h \in UserHooks, Hooks!UserWrites(h) PROVE HookInv'
    BY <2>2 DEF Hooks!UserWrites, Hooks!Idle
  <2> QED
    BY <1>4, <2>1, <2>2
<1>5. CASE Hooks!Crash \/ UNCHANGED Hooks!vars
  BY <1>5 DEF Hooks!Crash, Hooks!vars
<1> QED
  BY <1>1, <1>2, <1>3, <1>4, <1>5 DEF Hooks!Next

\* A hook that the user wrote and did not remove is at the path or preserved beside it, through
\* any order of installs, removals, edits and deaths of the daemon; and what is preserved is
\* never ours, so that the chain ends (git/hooks/hooks.go, Install and Uninstall).
THEOREM UserHooksAreKept ==
    ASSUME Hooks!HookConstants PROVE Hooks!Spec => [](Hooks!UserHookKept /\ Hooks!NeverChainsItself)
<1>1. HookInv => Hooks!UserHookKept /\ Hooks!NeverChainsItself
  BY DEF HookInv
<1>2. Hooks!Init => HookInv
  BY DEF Hooks!Init, HookInv, Hooks!HookTypeOK, Hooks!UserHookKept, Hooks!NeverChainsItself, Hooks!HookConstants
<1> QED
  BY <1>1, <1>2, HookStep, PTL DEF Hooks!Spec
=============================================================================
